---- MODULE Spec2Model ----
(***************************************************************************)
(* Model of the peaceful-video services, in parts, each with its own       *)
(* specification over the variables it uses:                               *)
(*                                                                         *)
(* Spec            upload_to_mux, the upload-and-poll client of the        *)
(*                 video-hosting platform, in its three variants:          *)
(*   "mux_upload"  src/api/src/mux_upload.py (the same code as             *)
(*                 src/functions/peaceful-video-generation/src/            *)
(*                 mux-upload-test.py)                                     *)
(*   "main"        src/api/src/main.py                                     *)
(*   "function"    src/functions/peaceful-video-generation/src/main.py     *)
(* SpecTerminates  the same, run on without stopping                       *)
(* SpecNormalize   what each caller of a generation model makes of the     *)
(*                 model's output                                          *)
(* SpecPipeline    the request handlers, stage by stage, with the          *)
(*                 upload_to_mux they call run inside them                 *)
(* SpecRequests    the file operations of two requests served at once      *)
(* SpecDownload    download_file, called twice for the same url and file   *)
(* SpecRouting     the routes of the application main.app                  *)
(* SpecJobs        the background-job functions and their tasks            *)
(* SpecTestFn      the music-generation test function and its timeout      *)
(*                                                                         *)
(* The platform, the generation models, the download servers and ffmpeg    *)
(* are the environment: every answer they give (a status, an asset id, an  *)
(* HTTP status, an exception) is chosen nondeterministically, as a         *)
(* scripted fake would.                                                    *)
(***************************************************************************)
EXTENDS Integers, Sequences, FiniteSets, TLC

\* Largest file, in chunks, that the model uploads.
MaxChunks == 2

\* chunk_size = 5 * 1024 * 1024 (mux_upload.py:60).
chunk_size == 5 * 1024 * 1024

\* max_retries = 30, the budget of each polling loop.
MaxRetries == 30

None == "None"

\* asset = None: no asset object yet.
NoAsset == [id |-> None, status |-> None, playback_ids |-> <<>>, errors |-> <<>>]

Variants == {"mux_upload", "main", "function"}

\* File sizes at and just above the chunk threshold and its multiples.
FileSizes ==
    {s \in {k * chunk_size + d : k \in 0..MaxChunks, d \in {0, 1}} :
        s <= MaxChunks * chunk_size}

\* HTTP statuses the upload URL may answer a PUT with.
PutStatuses == {200, 201, 308, 204, 500}

\* asset_id values of an upload record: absent, empty, or an id.
UploadAssetIds == {None, "", "a1", "a2"}

\* asset.data of a get_asset / create_asset answer.
AssetData(id) ==
    { [id |-> id, status |-> "preparing", playback_ids |-> <<"p1">>, errors |-> <<>>],
      [id |-> id, status |-> "ready", playback_ids |-> <<"p1">>, errors |-> <<>>],
      [id |-> id, status |-> "ready", playback_ids |-> <<"p2", "p1">>, errors |-> <<>>],
      [id |-> id, status |-> "errored", playback_ids |-> <<"p1">>, errors |-> <<"e1">>] }

VARIABLES
    variant,      \* which upload_to_mux is running
    pc,           \* position in upload_to_mux
    file_size,    \* os.path.getsize(video_path)
    offset,       \* running offset of the chunk loop
    fpos,         \* read position of the open file f
    upload,       \* upload.data.id, None before create_direct_upload
    asset_id,     \* local asset_id
    retry_count,  \* local retry_count (mux_upload)
    max_retries,  \* local max_retries (counted down in main)
    asset,        \* local asset: NoAsset or asset.data
    result,       \* what upload_to_mux returned or raised
    puts,         \* history: the PUT requests sent, in order
    ncalls,       \* history: number of calls per platform resource
    seen,         \* history: what has been observed so far
    called_after, \* history: <<observation, call>>: call made after observation
    first_id,     \* history: first non-empty asset id the platform returned
    polled_ids,   \* history: the ids get_asset was called with
    ready_ids     \* history: playback_ids of the asset a poll returned as ready

\* The variables of upload_to_mux.
upload_vars == <<variant, pc, file_size, offset, fpos, upload, asset_id, retry_count,
                 max_retries, asset, result, puts, ncalls, seen, called_after,
                 first_id, polled_ids, ready_ids>>

VARIABLES
    caller,       \* which caller of a generation model is running
    output,       \* output = replicate.run(...)
    output_url    \* what the caller makes of output

\* The variables of the callers of the generation models.
norm_vars == <<caller, output, output_url>>

VARIABLES
    endpoint,     \* which request handler is running
    env,          \* the credentials set in the environment
    ppc,          \* position in the request handler
    fs,           \* the files that exist, each <<directory, name>>
    dirs,         \* the directories that exist
    manifest,     \* the lines of the concat file as last written
    in_flight,    \* the generation calls that were made and have not returned
    calls,        \* history: number of generation calls and downloads made
    events,       \* history: the stages entered and the stages completed
    failed,       \* history: the stages that failed, in order
    exc,          \* the exception on its way to the handler's except clause
    response      \* what the handler returned

\* The variables of the request handlers.
pipe_vars == <<endpoint, env, ppc, fs, dirs, manifest, in_flight, calls, events,
               failed, exc, response>>

VARIABLES
    handlers,     \* the handler each of two concurrent requests runs
    rpc,          \* each request's position in its handler
    reads,        \* history: the file paths each request has read
    writes        \* history: the file paths each request has written or deleted

\* The variables of two requests served at once by separate worker processes.
req_vars == <<handlers, rpc, reads, writes>>

VARIABLES
    dl_pc,          \* position in download_file
    dl_calls,       \* how many calls of download_file were started
    content,        \* the resource at the url, a sequence of bytes
    status_code,    \* response.status_code, 0 before the request
    total_size,     \* local total_size
    stream,         \* what response.iter_content has yet to deliver
    dest,           \* the content of the file local_filename
    downloaded,     \* local downloaded
    dl_result,      \* what download_file returned or raised
    prior,          \* history: the content of the file before the first call
    received,       \* history: the chunks iter_content delivered in this call
    reports,        \* history: the progress reports of this call
    first_dest      \* history: the content of the file after the first call

\* The variables of download_file.
dl_vars == <<dl_pc, dl_calls, content, status_code, total_size, stream, dest,
             downloaded, dl_result, prior, received, reports, first_dest>>

VARIABLES
    rt_pc,          \* position of the request in the application
    rt_method,      \* the method of the request
    rt_path,        \* the path of the request
    rt_handler,     \* the path operation function the request was routed to
    rt_response,    \* the response of the application
    rt_log          \* history: the requests answered before, with their status

\* The variables of a test client's requests to the application main.app.
rt_vars == <<rt_pc, rt_method, rt_path, rt_handler, rt_response, rt_log>>

VARIABLES
    job_fn,         \* which background-job function serves the request
    job_path,       \* context.req.path
    job_token,      \* whether REPLICATE_API_TOKEN is set
    jpc,            \* position in main
    job_doc,        \* the job document in the database
    job_response,   \* what main returned
    task_pc,        \* position of the background task
    gen_started,    \* whether the generation call of the job was started
    gen_outcome,    \* how the generation call ended
    job_output,     \* what the generation call returned
    task_unhandled  \* whether the background task ended with an exception

\* The variables of the background-job functions, music-gen-test.py and
\* viz-gen-test.py.
job_vars == <<job_fn, job_path, job_token, jpc, job_doc, job_response, task_pc,
              gen_started, gen_outcome, job_output, task_unhandled>>

VARIABLES
    tf_path,        \* context.req.path
    tf_token,       \* whether REPLICATE_API_TOKEN is set
    tf_pc,          \* position in main
    tf_task,        \* state of the task that runs generate_music
    tf_ready,       \* the callbacks the event loop has ready, in order
    tf_timer,       \* state of the timeout handle of asyncio.wait_for
    tf_late,        \* history: the timer had expired when replicate.run ended
    tf_output,      \* what replicate.run returned
    tf_exc,         \* the type of the exception replicate.run raised
    tf_response     \* what main returned

\* The variables of the music-generation test function, test.py.
tf_vars == <<tf_path, tf_token, tf_pc, tf_task, tf_ready, tf_timer, tf_late,
             tf_output, tf_exc, tf_response>>

\* The variables of the functions that stand beside the request handlers.
side_vars == <<dl_vars, rt_vars, job_vars, tf_vars>>

\* Everything that upload_to_mux leaves alone.
others == <<norm_vars, pipe_vars, req_vars, side_vars>>

vars == <<upload_vars, others>>

NoResult == [kind |-> "none"]

\* raise Exception(msg) / a propagated exception.
Raised(type, msg, detail) ==
    [kind |-> "raised", type |-> type, error |-> msg, detail |-> detail]

\* f"https://stream.mux.com/{playback_id}.m3u8"
PlaybackUrl(playback_id) == "https://stream.mux.com/" \o playback_id \o ".m3u8"

\* A slip in the index: the last playback id instead of the first.
LastPlaybackId(a) == a.playback_ids[Len(a.playback_ids)]

\* asset.data.playback_ids[0].id
FirstPlaybackId(a) == a.playback_ids[1]

\* The returned dict.
ResponseData(a) ==
    [kind |-> "returned",
     asset_id |-> a.id,
     playback_id |-> FirstPlaybackId(a),
     playback_url |-> PlaybackUrl(FirstPlaybackId(a))]

\* A slip in the test: "is not None", which takes the empty string for an id.
IsNotNone(v) == v # None

\* Python truthiness of an asset id: None and "" are falsy.
Truthy(v) == v # None /\ v # ""

\* response.raise_for_status(): raises for 4xx and 5xx only.
RaisesForStatus(status) == status >= 400 /\ status < 600

\* response.status_code not in [200, 201, 308]
ChunkStatusRejected(status) == status \notin {200, 201, 308}

Min(a, b) == IF a < b THEN a ELSE b

\* len(f.read(chunk_size)) at read position pos of a file of file_size bytes.
ReadLen(pos) == Min(chunk_size, file_size - pos)

\* The platform raised an ApiException in a call of kind k.
ApiError(k) == {"api_error", "api_error_" \o k}

\* A remote call of kind k is made: it comes after everything seen so far.
Call(k) ==
    /\ ncalls' = [ncalls EXCEPT ![k] = @ + 1]
    /\ called_after' = called_after \cup {<<o, k>> : o \in seen}

\* The locals of upload_to_mux(video_path) on entry, for a file of s bytes.
UploadStart(v, s) ==
    /\ variant = v
    /\ pc = "start"
    /\ file_size = s
    /\ offset = 0
    /\ fpos = 0
    /\ upload = None
    /\ asset_id = None
    /\ retry_count = 0
    /\ max_retries = MaxRetries
    /\ asset = NoAsset
    /\ result = NoResult
    /\ puts = <<>>
    /\ ncalls = [create |-> 0, put |-> 0, get_upload |-> 0, get_asset |-> 0,
                 create_asset |-> 0]
    /\ seen = {}
    /\ called_after = {}
    /\ first_id = None
    /\ polled_ids = {}
    /\ ready_ids = <<>>

\* A value of another type than the ones a field may hold: the field is unset.
NoOutput == [t |-> "unset", s |-> "", items |-> <<>>]

NoUrl == [kind |-> "unset", s |-> ""]

\* No caller of a generation model is running.
NormIdle ==
    /\ caller = None
    /\ output = NoOutput
    /\ output_url = NoUrl

NoResponse ==
    [success |-> FALSE, keys |-> {}, status |-> None, error |-> None,
     playback_id |-> None, playback_url |-> None]

NoCalls == [music |-> 0, viz |-> 0, audio |-> 0, video |-> 0]

\* A request handler on entry, for handler e, first position p and environment v.
HandlerStart(e, p, v) ==
    /\ endpoint = e
    /\ env = v
    /\ ppc = p
    /\ fs = {}
    /\ dirs = {}
    /\ manifest = <<>>
    /\ in_flight = {}
    /\ calls = NoCalls
    /\ events = {}
    /\ failed = <<>>
    /\ exc = None
    /\ response = NoResponse

\* No request handler is running.
PipeIdle == HandlerStart(None, "idle", {})

\* No pair of concurrent requests is running.
ReqIdle ==
    /\ handlers = <<>>
    /\ rpc = <<>>
    /\ reads = <<>>
    /\ writes = <<>>

\* download_file on entry, for a resource c and a file that holds d.
DownloadStart(c, d) ==
    /\ dl_pc = "get"
    /\ dl_calls = 1
    /\ content = c
    /\ status_code = 0
    /\ total_size = 0
    /\ stream = <<>>
    /\ dest = d
    /\ downloaded = 0
    /\ dl_result = NoResult
    /\ prior = d
    /\ received = <<>>
    /\ reports = <<>>
    /\ first_dest = <<>>

\* download_file is not called.
DlIdle == DownloadStart(<<>>, <<>>)

\* No response yet.
NoHttpResponse == [status_code |-> 0, keys |-> {}, status |-> None]

\* The application has received the request m p, its first or a later one.
RequestReceived(m, p, log) ==
    /\ rt_pc = "received"
    /\ rt_method = m
    /\ rt_path = p
    /\ rt_handler = None
    /\ rt_response = NoHttpResponse
    /\ rt_log = log

\* The test client sends nothing.
RtIdle == RequestReceived(None, None, <<>>)

\* No job document.
NoDoc == [exists |-> FALSE, status |-> None, output_url |-> NoUrl]

\* main of the background-job function fn on entry, for a request with path p;
\* tok tells whether REPLICATE_API_TOKEN is set.
JobStart(fn, p, tok) ==
    /\ job_fn = fn
    /\ job_path = p
    /\ job_token = tok
    /\ jpc = "check_path"
    /\ job_doc = NoDoc
    /\ job_response = NoHttpResponse
    /\ task_pc = "none"
    /\ gen_started = FALSE
    /\ gen_outcome = "none"
    /\ job_output = NoOutput
    /\ task_unhandled = FALSE

\* No request to a background-job function.
JobIdle == JobStart(None, None, FALSE)

\* The test function has returned nothing yet.
NoFnResponse == [status_code |-> 0, keys |-> {}, error_type |-> None, output |-> None]

\* main of the music-generation test function on entry, for a request with
\* path p; tok tells whether REPLICATE_API_TOKEN is set.
TestFnStart(p, tok) ==
    /\ tf_path = p
    /\ tf_token = tok
    /\ tf_pc = "check_path"
    /\ tf_task = "none"
    /\ tf_ready = <<>>
    /\ tf_timer = "unset"
    /\ tf_late = FALSE
    /\ tf_output = NoOutput
    /\ tf_exc = None
    /\ tf_response = NoFnResponse

\* No request to the music-generation test function.
TfIdle == TestFnStart(None, FALSE)

\* None of the functions beside the request handlers is running.
SideIdle == DlIdle /\ RtIdle /\ JobIdle /\ TfIdle

Init ==
    /\ \E v \in Variants, s \in FileSizes : UploadStart(v, s)
    /\ NormIdle
    /\ PipeIdle
    /\ ReqIdle
    /\ SideIdle

\* uploads_api.create_direct_upload(create_upload_request)
CreateUpload ==
    /\ pc = "start"
    /\ variant \in {"mux_upload", "main"}
    /\ Call("create")
    /\ \/ /\ upload' = "u1"
          /\ pc' = "put"
          /\ seen' = seen \cup {"create"}
          /\ UNCHANGED result
       \/ /\ seen' = seen \cup {"create"} \cup ApiError("create")
          /\ result' = Raised("ApiException", "upstream", <<>>)
          /\ pc' = "done"
          /\ UNCHANGED upload
    /\ UNCHANGED <<variant, file_size, offset, fpos, asset_id, retry_count,
                   max_retries, asset, puts, first_id, polled_ids, ready_ids>>
    /\ UNCHANGED others

\* if file_size <= chunk_size
SmallFile(size) == size <= chunk_size

\* Which byte-upload code runs: main always sends the file in one request.
SingleShot == variant = "main" \/ SmallFile(file_size)

\* A PUT status outside the set the platform documents as accepted.
BadPutStatus(status) == status \notin {200, 201, 308}

\* What a PUT answered with status adds to the observations.
PutSeen(status) == {"put"} \cup (IF BadPutStatus(status) THEN {"bad_put"} ELSE {})

\* The polling loops' locals as the code sets them before the upload loop.
StartUploadPoll ==
    /\ pc' = "poll_upload"
    /\ max_retries' = MaxRetries
    /\ retry_count' = 0
    /\ asset_id' = None

\* requests.put(upload.data.url, data=f, ...); response.raise_for_status()
PutSingle ==
    /\ pc = "put"
    /\ SingleShot
    /\ Call("put")
    /\ puts' = Append(puts, [ranged |-> FALSE, lo |-> 0, hi |-> file_size - 1,
                             total |-> file_size, len |-> file_size])
    /\ fpos' = file_size
    /\ \E status \in PutStatuses :
        /\ seen' = seen \cup PutSeen(status)
        /\ IF RaisesForStatus(status)
             THEN /\ result' = Raised("HTTPError", "status", <<status>>)
                  /\ pc' = "done"
                  /\ UNCHANGED <<max_retries, retry_count, asset_id>>
             ELSE /\ StartUploadPoll
                  /\ UNCHANGED result
    /\ UNCHANGED <<variant, file_size, offset, upload, asset, first_id, polled_ids, ready_ids>>
    /\ UNCHANGED others

\* The offset is left where it was.
Stalled(off, n) == off

\* offset += len(chunk)
Advanced(off, n) == off + n

\* One iteration of the chunk loop: read, PUT with Content-Range, check, advance.
PutChunk ==
    /\ pc = "put"
    /\ ~SingleShot
    /\ offset < file_size
    /\ ReadLen(fpos) > 0
    /\ LET n == ReadLen(fpos)
           end == Min(offset + n, file_size)
       IN  /\ Call("put")
           /\ puts' = Append(puts, [ranged |-> TRUE, lo |-> offset, hi |-> end - 1,
                                    total |-> file_size, len |-> n])
           /\ fpos' = fpos + n
           /\ \E status \in PutStatuses :
               /\ seen' = seen \cup PutSeen(status)
               /\ IF ChunkStatusRejected(status)
                    THEN /\ result' = Raised("Exception", "Upload failed with status",
                                             <<status>>)
                         /\ pc' = "done"
                         /\ UNCHANGED offset
                    ELSE /\ offset' = Advanced(offset, n)
                         /\ UNCHANGED <<result, pc>>
    /\ UNCHANGED <<variant, file_size, upload, asset_id, retry_count, max_retries,
                   asset, first_id, polled_ids, ready_ids>>
    /\ UNCHANGED others

\* The chunk loop ends: offset >= file_size, or the read returned nothing.
ChunksDone ==
    /\ pc = "put"
    /\ ~SingleShot
    /\ (offset >= file_size \/ ReadLen(fpos) = 0)
    /\ StartUploadPoll
    /\ UNCHANGED <<variant, file_size, offset, fpos, upload, asset, result, puts,
                   ncalls, seen, called_after, first_id, polled_ids, ready_ids>>
    /\ UNCHANGED others

\* History of a get_direct_upload answer carrying asset id v.
UploadAnswered(v) ==
    /\ first_id' = IF first_id = None /\ v # None /\ v # "" THEN v ELSE first_id
    /\ seen' = seen \cup {"get_upload"}
                    \cup (IF v # None /\ v # "" THEN {"asset_id"} ELSE {})

\* A missing break: the loop goes round again with the id taken.
KeepPolling == "poll_upload"

\* break, once the answer carries an asset id.
AfterIdTaken == "upload_polled"

\* while retry_count < max_retries and not asset_id  (mux_upload.py)
MuxUploadLoopGuard == retry_count < max_retries /\ ~Truthy(asset_id)

\* One iteration of the upload-status loop of mux_upload.py.
MuxPollUpload ==
    /\ pc = "poll_upload"
    /\ variant = "mux_upload"
    /\ MuxUploadLoopGuard
    /\ Call("get_upload")
    /\ \/ \E v \in UploadAssetIds :
            /\ UploadAnswered(v)
            /\ IF Truthy(v)
                 THEN /\ asset_id' = v
                      /\ pc' = AfterIdTaken
                      /\ UNCHANGED retry_count
                 ELSE /\ retry_count' = retry_count + 1
                      /\ UNCHANGED <<asset_id, pc>>
       \/ \* the call raises; except Exception: sleep and count the attempt
          /\ seen' = seen \cup {"get_upload"} \cup ApiError("get_upload")
          /\ retry_count' = retry_count + 1
          /\ UNCHANGED <<asset_id, pc, first_id>>
    /\ UNCHANGED <<variant, file_size, offset, fpos, upload, max_retries, asset,
                   result, puts, polled_ids, ready_ids>>
    /\ UNCHANGED others

\* while max_retries > 0  (main.py)
MainLoopGuard == max_retries > 0

\* One iteration of the upload-status loop of main.py.
MainPollUpload ==
    /\ pc = "poll_upload"
    /\ variant = "main"
    /\ MainLoopGuard
    /\ Call("get_upload")
    /\ \/ \E v \in UploadAssetIds :
            /\ UploadAnswered(v)
            /\ IF Truthy(v)
                 THEN /\ asset_id' = v
                      /\ pc' = AfterIdTaken
                      /\ UNCHANGED max_retries
                 ELSE /\ max_retries' = max_retries - 1
                      /\ UNCHANGED <<asset_id, pc>>
            /\ UNCHANGED result
       \/ \* the call raises and nothing catches it
          /\ seen' = seen \cup {"get_upload"} \cup ApiError("get_upload")
          /\ result' = Raised("ApiException", "upstream", <<>>)
          /\ pc' = "done"
          /\ UNCHANGED <<asset_id, max_retries, first_id>>
    /\ UNCHANGED <<variant, file_size, offset, fpos, upload, retry_count, asset,
                   puts, polled_ids, ready_ids>>
    /\ UNCHANGED others

\* The upload-status loop's condition is false.
ExitPollUpload ==
    /\ pc = "poll_upload"
    /\ \/ variant = "mux_upload" /\ ~MuxUploadLoopGuard
       \/ variant = "main" /\ ~MainLoopGuard
    /\ pc' = "upload_polled"
    /\ UNCHANGED <<variant, file_size, offset, fpos, upload, asset_id, retry_count,
                   max_retries, asset, result, puts, ncalls, seen, called_after,
                   first_id, polled_ids, ready_ids>>
    /\ UNCHANGED others

\* if not asset_id: raise ...; then the asset loop's locals are set.
AfterUploadPoll ==
    /\ pc = "upload_polled"
    /\ IF ~Truthy(asset_id)
         THEN /\ result' = Raised("Exception", "Failed to get asset ID after upload", <<>>)
              /\ pc' = "done"
              /\ seen' = seen \cup {"upload_timeout"}
              /\ UNCHANGED <<max_retries, retry_count, asset>>
         ELSE /\ pc' = "poll_asset"
              /\ max_retries' = MaxRetries
              /\ retry_count' = 0
              /\ asset' = NoAsset
              /\ UNCHANGED <<result, seen>>
    /\ UNCHANGED <<variant, file_size, offset, fpos, upload, asset_id, puts,
                   ncalls, called_after, first_id, polled_ids, ready_ids>>
    /\ UNCHANGED others

\* History and local of a get_asset answer a.
AssetAnswered(a) ==
    /\ asset' = a
    /\ seen' = seen \cup {"get_asset"}
                    \cup (IF a.status \in {"ready", "errored"} THEN {a.status} ELSE {})
    /\ ready_ids' = IF a.status = "ready" THEN a.playback_ids ELSE ready_ids

\* A slip in the comparison: one attempt too many.
MuxAssetLoopGuardOffByOne == retry_count <= max_retries

\* while retry_count < max_retries  (mux_upload.py)
MuxAssetLoopGuard == retry_count < max_retries

\* One iteration of the asset-status loop of mux_upload.py. The raise for
\* "errored" is inside the try whose except Exception catches it.
MuxPollAsset ==
    /\ pc = "poll_asset"
    /\ variant = "mux_upload"
    /\ MuxAssetLoopGuard
    /\ Call("get_asset")
    /\ polled_ids' = polled_ids \cup {asset_id}
    /\ \/ \E a \in AssetData(asset_id) :
            /\ AssetAnswered(a)
            /\ IF a.status = "ready"
                 THEN /\ pc' = "asset_polled"
                      /\ UNCHANGED retry_count
                 ELSE /\ retry_count' = retry_count + 1
                      /\ UNCHANGED pc
       \/ \* the call raises; except Exception: sleep and count the attempt
          /\ seen' = seen \cup {"get_asset"} \cup ApiError("get_asset")
          /\ retry_count' = retry_count + 1
          /\ UNCHANGED <<asset, pc, ready_ids>>
    /\ UNCHANGED <<variant, file_size, offset, fpos, upload, asset_id, max_retries,
                   result, puts, first_id>>
    /\ UNCHANGED others

\* One iteration of the asset-status loop of main.py.
MainPollAsset ==
    /\ pc = "poll_asset"
    /\ variant = "main"
    /\ MainLoopGuard
    /\ Call("get_asset")
    /\ polled_ids' = polled_ids \cup {asset_id}
    /\ \/ \E a \in AssetData(asset_id) :
            /\ AssetAnswered(a)
            /\ IF a.status = "ready"
                 THEN /\ pc' = "asset_polled"
                      /\ UNCHANGED <<max_retries, result>>
                 ELSE IF a.status = "errored"
                 THEN /\ result' = Raised("Exception", "Asset creation failed", a.errors)
                      /\ pc' = "done"
                      /\ UNCHANGED max_retries
                 ELSE /\ max_retries' = max_retries - 1
                      /\ UNCHANGED <<pc, result>>
       \/ \* the call raises and nothing catches it
          /\ seen' = seen \cup {"get_asset"} \cup ApiError("get_asset")
          /\ result' = Raised("ApiException", "upstream", <<>>)
          /\ pc' = "done"
          /\ UNCHANGED <<asset, max_retries, ready_ids>>
    /\ UNCHANGED <<variant, file_size, offset, fpos, upload, asset_id, retry_count,
                   puts, first_id>>
    /\ UNCHANGED others

\* The asset-status loop's condition is false.
ExitPollAsset ==
    /\ pc = "poll_asset"
    /\ \/ variant = "mux_upload" /\ ~MuxAssetLoopGuard
       \/ variant = "main" /\ ~MainLoopGuard
    /\ pc' = "asset_polled"
    /\ UNCHANGED <<variant, file_size, offset, fpos, upload, asset_id, retry_count,
                   max_retries, asset, result, puts, ncalls, seen, called_after,
                   first_id, polled_ids, ready_ids>>
    /\ UNCHANGED others

\* if not asset or asset.data.status != "ready": raise ...; else return.
AfterAssetPoll ==
    /\ pc = "asset_polled"
    /\ IF asset = NoAsset \/ asset.status # "ready"
         THEN /\ result' = Raised("Exception", "Asset failed to become ready in time", <<>>)
              /\ seen' = seen \cup {"asset_timeout"}
         ELSE /\ result' = ResponseData(asset)
              /\ UNCHANGED seen
    /\ pc' = "done"
    /\ UNCHANGED <<variant, file_size, offset, fpos, upload, asset_id, retry_count,
                   max_retries, asset, puts, ncalls, called_after, first_id,
                   polled_ids, ready_ids>>
    /\ UNCHANGED others

\* The function variant: assets_api.create_asset(...) and an immediate return
\* of the new asset's first playback id, with no polling.
CreateAsset ==
    /\ pc = "start"
    /\ variant = "function"
    /\ Call("create_asset")
    /\ \/ \E a \in {d \in AssetData("a1") : d.status = "preparing"} :
            /\ asset' = a
            /\ result' = ResponseData(a)
            /\ seen' = seen \cup {"create_asset"}
       \/ /\ seen' = seen \cup {"create_asset"} \cup ApiError("create_asset")
          /\ result' = Raised("ApiException", "upstream", <<>>)
          /\ UNCHANGED asset
    /\ pc' = "done"
    /\ UNCHANGED <<variant, file_size, offset, fpos, upload, asset_id, retry_count,
                   max_retries, puts, first_id, polled_ids, ready_ids>>
    /\ UNCHANGED others

Next ==
    \/ CreateUpload
    \/ PutSingle
    \/ PutChunk
    \/ ChunksDone
    \/ MuxPollUpload
    \/ MainPollUpload
    \/ ExitPollUpload
    \/ AfterUploadPoll
    \/ MuxPollAsset
    \/ MainPollAsset
    \/ ExitPollAsset
    \/ AfterAssetPoll
    \/ CreateAsset

Spec == Init /\ [][Next]_vars

\* File sizes at the chunk threshold, just above it, and the largest.
TerminatingSizes == {chunk_size, chunk_size + 1, MaxChunks * chunk_size}

TermInit ==
    /\ \E v \in Variants, s \in TerminatingSizes : UploadStart(v, s)
    /\ NormIdle
    /\ PipeIdle
    /\ ReqIdle
    /\ SideIdle

\* upload_to_mux is one call on one thread: once called, it goes on to its next
\* statement for as long as it has one.
SpecTerminates == TermInit /\ [][Next]_vars /\ WF_vars(Next)

(***************************************************************************)
(* The callers of the generation models and what each makes of the         *)
(* model's output.  The output of replicate.run is the environment's: a    *)
(* string, a FileOutput object, None, or a list of strings and FileOutput  *)
(* objects.                                                                *)
(***************************************************************************)

\* Longest list a generation model returns in the model.
MaxItems == 2

StrVal(u) == [t |-> "str", s |-> u, items |-> <<>>]

\* A FileOutput object: str() of it is its URL, and it is not subscriptable.
FileVal(u) == [t |-> "file", s |-> u, items |-> <<>>]

NoneVal == [t |-> "none", s |-> "", items |-> <<>>]

ListVal(items) == [t |-> "list", s |-> "", items |-> items]

ItemVals == {StrVal("u1"), StrVal("u2"), FileVal("u1")}

Lists == UNION {[1..n -> ItemVals] : n \in 0..MaxItems}

\* What replicate.run may return.
GenOutputs == {StrVal("u1"), FileVal("u1"), NoneVal} \cup {ListVal(l) : l \in Lists}

\* repr() of a list item, as str() of the list shows it.
Repr(v) == IF v.t = "str" THEN "'" \o v.s \o "'" ELSE "FileOutput(" \o v.s \o ")"

RECURSIVE JoinRepr(_)
JoinRepr(items) ==
    IF Len(items) = 0 THEN ""
    ELSE IF Len(items) = 1 THEN Repr(items[1])
    ELSE Repr(items[1]) \o ", " \o JoinRepr(Tail(items))

\* str(v)
Str(v) ==
    CASE v.t = "str" -> v.s
      [] v.t = "file" -> v.s
      [] v.t = "none" -> "None"
      [] v.t = "list" -> "[" \o JoinRepr(v.items) \o "]"

\* Python truthiness of a model output.
TruthyOutput(v) ==
    CASE v.t = "str" -> v.s # ""
      [] v.t = "file" -> TRUE
      [] v.t = "none" -> FALSE
      [] v.t = "list" -> Len(v.items) > 0

Url(u) == [kind |-> "url", s |-> u]

\* The expression raised type instead of giving a value.
Raises(type) == [kind |-> "raises", s |-> type]

\* The caller hands the output on as it is.
Raw == [kind |-> "raw", s |-> ""]

\* The caller makes nothing of the output.
Skipped == [kind |-> "skipped", s |-> ""]

\* str(output[0]) if isinstance(output, list) and len(output) > 0 else str(output)
ListFirstOrWhole(v) ==
    IF v.t = "list" /\ Len(v.items) > 0 THEN Url(Str(v.items[1])) ELSE Url(Str(v))

\* output[0]: IndexError on an empty list, TypeError on what has no items.
Subscript0(v) ==
    IF v.t = "list"
      THEN IF Len(v.items) > 0 THEN Url(Str(v.items[1])) ELSE Raises("IndexError")
      ELSE Raises("TypeError")

\* str(output) if isinstance(output, str) else str(output[0])
StrOrFirst(v) == IF v.t = "str" THEN Url(Str(v)) ELSE Subscript0(v)

MusicCallers ==
    {"main.generate_music", "music_generation", "api_test", "local_music_test",
     "music_gen_test", "function_test", "function.generate_music"}

VizCallers ==
    {"main.generate_visualization", "viz_generation", "viz_gen_test",
     "function.generate_video"}

\* What each caller of the music model makes of its output.
MusicOutputUrl(c, v) ==
    CASE c \in {"main.generate_music", "music_generation", "local_music_test",
                "music_gen_test"} -> ListFirstOrWhole(v)
      [] c = "api_test" -> IF TruthyOutput(v) THEN ListFirstOrWhole(v) ELSE Skipped
      [] c = "function_test" -> Url(Str(v))
      [] c = "function.generate_music" -> Raw

\* What each caller of the visualization / video model makes of its output.
VizOutputUrl(c, v) ==
    CASE c \in {"main.generate_visualization", "viz_generation"} -> Url(Str(v))
      [] c = "viz_gen_test" -> StrOrFirst(v)
      [] c = "function.generate_video" -> Raw

\* upload_to_mux is not running.
UploadIdle == UploadStart("main", 0)

NormInit ==
    /\ caller \in MusicCallers \cup VizCallers
    /\ output \in GenOutputs
    /\ output_url = NoUrl
    /\ UploadIdle
    /\ PipeIdle
    /\ ReqIdle
    /\ SideIdle

\* A caller of the music model handles the output it got.
NormalizeMusic ==
    /\ caller \in MusicCallers
    /\ output_url = NoUrl
    /\ output_url' = MusicOutputUrl(caller, output)
    /\ UNCHANGED <<caller, output, upload_vars, pipe_vars, req_vars, side_vars>>

\* A caller of the visualization / video model handles the output it got.
NormalizeViz ==
    /\ caller \in VizCallers
    /\ output_url = NoUrl
    /\ output_url' = VizOutputUrl(caller, output)
    /\ UNCHANGED <<caller, output, upload_vars, pipe_vars, req_vars, side_vars>>

NormNext ==
    \/ NormalizeMusic
    \/ NormalizeViz

SpecNormalize == NormInit /\ [][NormNext]_vars

(***************************************************************************)
(* The request handlers:                                                   *)
(*   "peaceful"      generate_peaceful_content, src/api/src/main.py        *)
(*   "merge_av"      merge_av, src/api/src/merge_av.py                     *)
(*   "upload_video"  upload_video, src/api/src/mux_upload.py               *)
(*   "function"      main, src/functions/peaceful-video-generation/src/    *)
(*                   main.py                                               *)
(* The generation models, the download servers and ffmpeg are the          *)
(* environment: each call of them succeeds or raises.                      *)
(***************************************************************************)

Endpoints == {"peaceful", "merge_av", "upload_video", "function"}

\* The credentials: the Replicate token and the two halves of the Mux token.
Credentials == {"REPLICATE", "MUX_TOKEN_ID", "MUX_TOKEN_SECRET"}

\* The environments of the model: every credential set, or one of them missing.
Envs == {Credentials} \cup {Credentials \ {c} : c \in Credentials}

\* loops: int = 5, the default that every caller leaves in place.
loops == 5

\* The size of the file handed to upload_to_mux: one that is sent in chunks.
MergedFileSizes == {chunk_size + 1}

\* tempfile.TemporaryDirectory()
TempDir == "tmp"

\* os.path.join(directory, name)
Join(directory, name) == <<directory, name>>

\* os.path.dirname(path)
Dirname(path) == path[1]

\* tempfile.NamedTemporaryFile(delete=False, suffix=".mp4")
TempFile == Join("tmpfiles", "upload.mp4")

\* "output/merged_looped.mp4"
OutputPath == Join("output", "merged_looped.mp4")

AudioPath(tdir) == Join(tdir, "audio.mp3")

VideoPath(tdir) == Join(tdir, "video.mp4")

\* Where handler e puts the merged clip.
MergedPath(e, tdir) ==
    IF e = "peaceful" THEN Join(Dirname(OutputPath), "temp_merged.mp4")
    ELSE Join(tdir, "merged.mp4")

\* Where the looping of handler e puts its concat file.
ConcatFile(e, tdir) ==
    IF e = "peaceful" THEN Join(Dirname(OutputPath), "concat.txt")
    ELSE Join(Dirname(MergedPath(e, tdir)), "concat.txt")

\* Which upload_to_mux a handler calls.
VariantOf(e) ==
    CASE e = "upload_video" -> "mux_upload"
      [] e = "function" -> "function"
      [] OTHER -> "main"

\* required_vars of the handler's check of the environment.
CheckedVars(e) ==
    CASE e = "upload_video" -> {"MUX_TOKEN_ID", "MUX_TOKEN_SECRET"}
      [] e = "function" -> Credentials
      [] OTHER -> {}

\* The first statement of each handler.
FirstPc(e) ==
    CASE e = "peaceful" -> "makedirs"
      [] e = "merge_av" -> "tempdir"
      [] OTHER -> "check_env"

PipeInit ==
    /\ \E e \in Endpoints, v \in Envs : HandlerStart(e, FirstPc(e), v)
    /\ \E s \in MergedFileSizes : UploadStart(VariantOf(endpoint), s)
    /\ NormIdle
    /\ ReqIdle
    /\ SideIdle

\* A stage raised: the exception is on its way to the handler's except clause.
Raise(stage) ==
    /\ exc' = IF exc = None THEN stage ELSE exc
    /\ ppc' = "raising"

\* A retry: the stage that raised is entered again.
RetryStage(stage, again) == again

\* The position after a stage of a sequential handler raised: no stage is
\* entered again.
AfterFailure(stage, again) == "raising"

\* missing_vars = [var for var in required_vars if not os.getenv(var)]
CheckEnv ==
    /\ ppc = "check_env"
    /\ IF CheckedVars(endpoint) \subseteq env
         THEN /\ ppc' = IF endpoint = "function" THEN "gen_music" ELSE "tempfile"
              /\ events' = events \cup {"config_ok"}
              /\ UNCHANGED <<exc, failed>>
         ELSE /\ Raise("config")
              /\ failed' = Append(failed, "config")
              /\ UNCHANGED events
    /\ UNCHANGED <<endpoint, env, fs, dirs, manifest, in_flight, calls, response>>
    /\ UNCHANGED <<norm_vars, upload_vars, req_vars, side_vars>>

\* os.makedirs("output", exist_ok=True)
MakeOutputDir ==
    /\ ppc = "makedirs"
    /\ dirs' = dirs \cup {"output"}
    /\ ppc' = IF endpoint = "peaceful" THEN "gen_music" ELSE "manifest"
    /\ UNCHANGED <<endpoint, env, fs, manifest, in_flight, calls, events, failed,
                   exc, response>>
    /\ UNCHANGED <<norm_vars, upload_vars, req_vars, side_vars>>

\* The call of the music model is made: replicate.run(...) blocks until it
\* returns.
StartMusic ==
    /\ ppc = "gen_music"
    /\ in_flight' = in_flight \cup {"music"}
    /\ calls' = [calls EXCEPT !.music = @ + 1]
    /\ events' = events \cup {"music"}
    /\ ppc' = "music_running"
    /\ UNCHANGED <<endpoint, env, fs, dirs, manifest, failed, exc, response>>
    /\ UNCHANGED <<norm_vars, upload_vars, req_vars, side_vars>>

\* The music model answered.  Under asyncio.gather the task of
\* generate_visualization, already scheduled, runs next whatever the answer.
FinishMusic ==
    /\ ppc = "music_running"
    /\ in_flight' = in_flight \ {"music"}
    /\ \/ /\ events' = events \cup {"music_ok"}
          /\ ppc' = "gen_viz"
          /\ UNCHANGED <<failed, exc>>
       \/ /\ failed' = Append(failed, "music")
          /\ exc' = "music"
          /\ ppc' = IF endpoint = "peaceful" THEN "gen_viz"
                    ELSE AfterFailure("music", "gen_music")
          /\ UNCHANGED events
    /\ UNCHANGED <<endpoint, env, fs, dirs, manifest, calls, response>>
    /\ UNCHANGED <<norm_vars, upload_vars, req_vars, side_vars>>

\* The call of the visualization / video model is made.
StartViz ==
    /\ ppc = "gen_viz"
    /\ in_flight' = in_flight \cup {"viz"}
    /\ calls' = [calls EXCEPT !.viz = @ + 1]
    /\ events' = events \cup {"viz"}
    /\ ppc' = "viz_running"
    /\ UNCHANGED <<endpoint, env, fs, dirs, manifest, failed, exc, response>>
    /\ UNCHANGED <<norm_vars, upload_vars, req_vars, side_vars>>

\* The visualization / video model answered; the gather, if any, is over.
FinishViz ==
    /\ ppc = "viz_running"
    /\ in_flight' = in_flight \ {"viz"}
    /\ \/ /\ events' = events \cup {"viz_ok"}
          /\ ppc' = IF exc = None THEN "tempdir" ELSE "raising"
          /\ UNCHANGED <<failed, exc>>
       \/ /\ failed' = Append(failed, "viz")
          /\ exc' = IF exc = None THEN "viz" ELSE exc
          /\ ppc' = IF endpoint = "peaceful" THEN "raising"
                    ELSE AfterFailure("viz", "gen_viz")
          /\ UNCHANGED events
    /\ UNCHANGED <<endpoint, env, fs, dirs, manifest, calls, response>>
    /\ UNCHANGED <<norm_vars, upload_vars, req_vars, side_vars>>

\* with tempfile.TemporaryDirectory() as temp_dir:
CreateTempDir ==
    /\ ppc = "tempdir"
    /\ dirs' = dirs \cup {TempDir}
    /\ ppc' = "dl_audio"
    /\ UNCHANGED <<endpoint, env, fs, manifest, in_flight, calls, events, failed,
                   exc, response>>
    /\ UNCHANGED <<norm_vars, upload_vars, req_vars, side_vars>>

\* download_file(audio url, audio_path).  Under asyncio.gather the task of the
\* second download runs next whatever the outcome.
DownloadAudio ==
    /\ ppc = "dl_audio"
    /\ calls' = [calls EXCEPT !.audio = @ + 1]
    /\ \/ /\ fs' = fs \cup {AudioPath(TempDir)}
          /\ events' = events \cup {"dl_audio", "dl_audio_ok"}
          /\ ppc' = "dl_video"
          /\ UNCHANGED <<failed, exc>>
       \/ /\ failed' = Append(failed, "dl_audio")
          /\ exc' = "dl_audio"
          /\ events' = events \cup {"dl_audio"}
          /\ ppc' = IF endpoint = "peaceful" THEN "dl_video"
                    ELSE AfterFailure("dl_audio", "dl_audio")
          /\ UNCHANGED fs
    /\ UNCHANGED <<endpoint, env, dirs, manifest, in_flight, response>>
    /\ UNCHANGED <<norm_vars, upload_vars, req_vars, side_vars>>

\* download_file(video url, video_path); the gather, if any, is over.
DownloadVideo ==
    /\ ppc = "dl_video"
    /\ calls' = [calls EXCEPT !.video = @ + 1]
    /\ \/ /\ fs' = fs \cup {VideoPath(TempDir)}
          /\ events' = events \cup {"dl_video", "dl_video_ok"}
          /\ ppc' = IF exc = None THEN "merge" ELSE "raising"
          /\ UNCHANGED <<failed, exc>>
       \/ /\ failed' = Append(failed, "dl_video")
          /\ exc' = IF exc = None THEN "dl_video" ELSE exc
          /\ events' = events \cup {"dl_video"}
          /\ ppc' = IF endpoint = "peaceful" THEN "raising"
                    ELSE AfterFailure("dl_video", "dl_video")
          /\ UNCHANGED fs
    /\ UNCHANGED <<endpoint, env, dirs, manifest, in_flight, response>>
    /\ UNCHANGED <<norm_vars, upload_vars, req_vars, side_vars>>

\* The ffmpeg run that merges the two downloads into the merged clip.
MergeAudioVideo ==
    /\ ppc = "merge"
    /\ \/ /\ fs' = fs \cup {MergedPath(endpoint, TempDir)}
          /\ events' = events \cup {"merge", "merge_ok"}
                              \cup (IF endpoint = "function" THEN {"upload"} ELSE {})
          /\ ppc' = CASE endpoint = "peaceful" -> "manifest"
                      [] endpoint = "merge_av" -> "makedirs"
                      [] OTHER -> "upload"
          /\ UNCHANGED <<failed, exc>>
       \/ /\ failed' = Append(failed, "merge")
          /\ Raise("merge")
          /\ events' = events \cup {"merge"}
          /\ UNCHANGED fs
    /\ UNCHANGED <<endpoint, env, dirs, manifest, in_flight, calls, response>>
    /\ UNCHANGED <<norm_vars, upload_vars, req_vars, side_vars>>

\* The concat file is written: loops lines "file '<the merged clip>'".
WriteManifest ==
    /\ ppc = "manifest"
    /\ fs' = fs \cup {ConcatFile(endpoint, TempDir)}
    /\ manifest' = [i \in 1..loops |-> MergedPath(endpoint, TempDir)]
    /\ events' = events \cup {"loop"}
    /\ ppc' = "concat"
    /\ UNCHANGED <<endpoint, env, dirs, in_flight, calls, failed, exc, response>>
    /\ UNCHANGED <<norm_vars, upload_vars, req_vars, side_vars>>

\* What the looping removes after a successful run of the concat tool.
RemovedAfterConcat(e, tdir) ==
    IF e = "peaceful" THEN {ConcatFile(e, tdir), MergedPath(e, tdir)}
    ELSE {ConcatFile(e, tdir)}

\* The ffmpeg run of the concat demuxer, and the os.remove calls after it.
Concat ==
    /\ ppc = "concat"
    /\ \/ /\ fs' = (fs \cup {OutputPath}) \ RemovedAfterConcat(endpoint, TempDir)
          /\ events' = events \cup {"loop_ok"}
                              \cup (IF endpoint = "peaceful" THEN {"upload"} ELSE {})
          /\ ppc' = IF endpoint = "peaceful" THEN "upload" ELSE "respond"
          /\ UNCHANGED <<failed, exc>>
       \/ /\ failed' = Append(failed, "loop")
          /\ Raise("loop")
          /\ UNCHANGED <<fs, events>>
    /\ UNCHANGED <<endpoint, env, dirs, manifest, in_flight, calls, response>>
    /\ UNCHANGED <<norm_vars, upload_vars, req_vars, side_vars>>

\* with tempfile.NamedTemporaryFile(delete=False, suffix=".mp4") as temp_file:
CreateTempFile ==
    /\ ppc = "tempfile"
    /\ fs' = fs \cup {TempFile}
    /\ ppc' = "save"
    /\ UNCHANGED <<endpoint, env, dirs, manifest, in_flight, calls, events, failed,
                   exc, response>>
    /\ UNCHANGED <<norm_vars, upload_vars, req_vars, side_vars>>

\* temp_file.write(await file.read()): reading the request body or writing the
\* file may raise, and that is before the try whose finally unlinks the file.
SaveUpload ==
    /\ ppc = "save"
    /\ \/ /\ ppc' = "upload"
          /\ events' = events \cup {"upload"}
          /\ UNCHANGED <<failed, exc>>
       \/ /\ failed' = Append(failed, "save")
          /\ Raise("save")
          /\ UNCHANGED events
    /\ UNCHANGED <<endpoint, env, fs, dirs, manifest, in_flight, calls, response>>
    /\ UNCHANGED <<norm_vars, upload_vars, req_vars, side_vars>>

\* A step of upload_to_mux, called by the handler.
UploadStep ==
    /\ ppc = "upload"
    /\ pc # "done"
    /\ Next

\* upload_to_mux returned its dict or raised.
UploadReturn ==
    /\ ppc = "upload"
    /\ pc = "done"
    /\ IF result.kind = "returned"
         THEN /\ events' = events \cup {"upload_ok"}
              /\ ppc' = "respond"
              /\ UNCHANGED <<failed, exc>>
         ELSE /\ failed' = Append(failed, "upload")
              /\ Raise("upload")
              /\ UNCHANGED events
    /\ UNCHANGED <<endpoint, env, fs, dirs, manifest, in_flight, calls, response>>
    /\ UNCHANGED <<norm_vars, upload_vars, req_vars, side_vars>>

\* The files left when the temporary directory is removed.
WithoutTempDir(files) == {p \in files : Dirname(p) # TempDir}

\* The fields of the handler's success response.
SuccessKeys(e) ==
    CASE e = "peaceful" -> {"success", "mux_playback_id", "mux_playback_url", "status",
                            "execution_time_seconds"}
      [] e = "merge_av" -> {"success", "output_path", "status",
                            "execution_time_seconds"}
      [] e = "upload_video" -> {"success", "asset_id", "playback_id", "playback_url",
                                "status", "execution_time_seconds"}
      [] e = "function" -> {"success", "mux_data", "message", "processing_time"}

\* The fields of the handler's failure response.
FailureKeys(e) ==
    IF e = "function" THEN {"success", "error", "processing_time"}
    ELSE {"success", "status", "error", "execution_time_seconds"}

\* A slip in the failure branch: the status of the success response.
AlwaysCompleted(e, ok) == IF e = "function" THEN None ELSE "completed"

\* status="completed" / status="failed"; the function's responses have no status.
StatusOf(e, ok) ==
    IF e = "function" THEN None ELSE IF ok THEN "completed" ELSE "failed"

\* The return of the success response: the with block is left, which removes
\* the temporary directory, or the finally clause unlinks the temporary file.
Respond ==
    /\ ppc = "respond"
    /\ response' = [success |-> TRUE,
                    keys |-> SuccessKeys(endpoint),
                    status |-> StatusOf(endpoint, TRUE),
                    error |-> None,
                    playback_id |-> IF endpoint = "merge_av" THEN None
                                    ELSE result.playback_id,
                    playback_url |-> IF endpoint = "merge_av" THEN None
                                     ELSE result.playback_url]
    /\ dirs' = dirs \ {TempDir}
    /\ fs' = WithoutTempDir(fs) \ {TempFile}
    /\ ppc' = "done"
    /\ UNCHANGED <<endpoint, env, manifest, in_flight, calls, events, failed, exc>>
    /\ UNCHANGED <<norm_vars, upload_vars, req_vars, side_vars>>

\* What the finally clause of upload_video unlinks when exception e passes it.
UnlinkedOn(e) == IF endpoint = "upload_video" /\ e = "upload" THEN {TempFile} ELSE {}

\* except Exception as e: the with block is left by the exception, and the
\* handler returns its failure response.
HandleException ==
    /\ ppc = "raising"
    /\ response' = [success |-> FALSE,
                    keys |-> FailureKeys(endpoint),
                    status |-> StatusOf(endpoint, FALSE),
                    error |-> exc,
                    playback_id |-> None,
                    playback_url |-> None]
    /\ dirs' = dirs \ {TempDir}
    /\ fs' = WithoutTempDir(fs) \ UnlinkedOn(exc)
    /\ ppc' = "done"
    /\ UNCHANGED <<endpoint, env, manifest, in_flight, calls, events, failed, exc>>
    /\ UNCHANGED <<norm_vars, upload_vars, req_vars, side_vars>>

PipeNext ==
    \/ CheckEnv
    \/ MakeOutputDir
    \/ StartMusic
    \/ FinishMusic
    \/ StartViz
    \/ FinishViz
    \/ CreateTempDir
    \/ DownloadAudio
    \/ DownloadVideo
    \/ MergeAudioVideo
    \/ WriteManifest
    \/ Concat
    \/ CreateTempFile
    \/ SaveUpload
    \/ UploadStep
    \/ UploadReturn
    \/ Respond
    \/ HandleException

SpecPipeline == PipeInit /\ [][PipeNext]_vars

(***************************************************************************)
(* Two requests served at once by separate worker processes that share the *)
(* working directory: the file operations of each handler, in the          *)
(* handler's order.  tempfile gives each request names of its own; every   *)
(* other path is as the handler computes it.                               *)
(***************************************************************************)

Requests == {1, 2}

\* The name tempfile.TemporaryDirectory() gives request r.
TempDirOf(r) == IF r = 1 THEN TempDir ELSE "tmp2"

\* The name tempfile.NamedTemporaryFile() gives request r.
TempFileOf(r) == IF r = 1 THEN TempFile ELSE Join("tmpfiles", "upload2.mp4")

\* The stages of each handler, in the order of its code.
StepsOf(e) ==
    CASE e = "peaceful" -> <<"generate", "tempdir", "download", "merge", "manifest",
                             "concat", "upload", "cleanup">>
      [] e = "merge_av" -> <<"tempdir", "download", "merge", "manifest", "concat",
                             "cleanup">>
      [] e = "function" -> <<"generate", "tempdir", "download", "merge", "upload",
                             "cleanup">>
      [] e = "upload_video" -> <<"tempfile", "upload", "cleanup">>

\* The file upload_to_mux is given by handler e.
UploadedPath(e, r) ==
    CASE e = "peaceful" -> OutputPath
      [] e = "upload_video" -> TempFileOf(r)
      [] OTHER -> MergedPath(e, TempDirOf(r))

ReqInit ==
    /\ handlers \in [Requests -> Endpoints]
    /\ rpc = [r \in Requests |-> 1]
    /\ reads = [r \in Requests |-> {}]
    /\ writes = [r \in Requests |-> {}]
    /\ PipeIdle
    /\ NormIdle
    /\ UploadIdle
    /\ SideIdle

\* The stage request r is at, "done" after the last.
StepAt(r) ==
    IF rpc[r] <= Len(StepsOf(handlers[r])) THEN StepsOf(handlers[r])[rpc[r]] ELSE "done"

\* Request r goes on to its next stage, having read rd and written or deleted wr.
Advance(r, rd, wr) ==
    /\ rpc' = [rpc EXCEPT ![r] = @ + 1]
    /\ reads' = [reads EXCEPT ![r] = @ \cup rd]
    /\ writes' = [writes EXCEPT ![r] = @ \cup wr]

\* What the file operations of the two requests leave alone.
ReqFrame ==
    /\ UNCHANGED <<endpoint, env, ppc, manifest, in_flight, calls, events, failed,
                   exc, response>>
    /\ UNCHANGED <<norm_vars, upload_vars, side_vars>>

\* The stage of request r raised: the handler goes to its cleanup.
RAbort(r) ==
    /\ StepAt(r) \in {"generate", "download", "merge", "concat", "upload"}
    /\ rpc' = [rpc EXCEPT ![r] = Len(StepsOf(handlers[r]))]
    /\ UNCHANGED <<handlers, reads, writes, fs, dirs>>
    /\ ReqFrame

\* The generation calls: no file is touched (after os.makedirs("output")).
RGenerate(r) ==
    /\ StepAt(r) = "generate"
    /\ Advance(r, {}, {})
    /\ dirs' = IF handlers[r] = "peaceful" THEN dirs \cup {"output"} ELSE dirs
    /\ UNCHANGED <<handlers, fs>>
    /\ ReqFrame

RCreateTempDir(r) ==
    /\ StepAt(r) = "tempdir"
    /\ Advance(r, {}, {})
    /\ dirs' = dirs \cup {TempDirOf(r)}
    /\ UNCHANGED <<handlers, fs>>
    /\ ReqFrame

\* The uploaded body is saved in a temporary file.
RCreateTempFile(r) ==
    /\ StepAt(r) = "tempfile"
    /\ Advance(r, {}, {TempFileOf(r)})
    /\ fs' = fs \cup {TempFileOf(r)}
    /\ UNCHANGED <<handlers, dirs>>
    /\ ReqFrame

RDownload(r) ==
    LET new == {AudioPath(TempDirOf(r)), VideoPath(TempDirOf(r))} IN
    /\ StepAt(r) = "download"
    /\ Advance(r, {}, new)
    /\ fs' = fs \cup new
    /\ UNCHANGED <<handlers, dirs>>
    /\ ReqFrame

RMerge(r) ==
    LET merged == MergedPath(handlers[r], TempDirOf(r)) IN
    /\ StepAt(r) = "merge"
    /\ {AudioPath(TempDirOf(r)), VideoPath(TempDirOf(r))} \subseteq fs
    /\ Advance(r, {AudioPath(TempDirOf(r)), VideoPath(TempDirOf(r))}, {merged})
    /\ fs' = fs \cup {merged}
    /\ UNCHANGED <<handlers, dirs>>
    /\ ReqFrame

\* os.makedirs("output") where the handler has it here, and the concat file.
RWriteManifest(r) ==
    LET concat == ConcatFile(handlers[r], TempDirOf(r)) IN
    /\ StepAt(r) = "manifest"
    /\ Advance(r, {}, {concat})
    /\ fs' = fs \cup {concat}
    /\ dirs' = dirs \cup {"output"}
    /\ UNCHANGED handlers
    /\ ReqFrame

\* The concat run reads the concat file and the clip it names; it raises when
\* one of them is gone (RAbort).
RConcat(r) ==
    LET e == handlers[r]
        inputs == {ConcatFile(e, TempDirOf(r)), MergedPath(e, TempDirOf(r))} IN
    /\ StepAt(r) = "concat"
    /\ inputs \subseteq fs
    /\ Advance(r, inputs, {OutputPath} \cup RemovedAfterConcat(e, TempDirOf(r)))
    /\ fs' = (fs \cup {OutputPath}) \ RemovedAfterConcat(e, TempDirOf(r))
    /\ UNCHANGED <<handlers, dirs>>
    /\ ReqFrame

\* upload_to_mux reads the file it is given.
RUpload(r) ==
    /\ StepAt(r) = "upload"
    /\ UploadedPath(handlers[r], r) \in fs
    /\ Advance(r, {UploadedPath(handlers[r], r)}, {})
    /\ UNCHANGED <<handlers, fs, dirs>>
    /\ ReqFrame

\* The temporary directory is removed with what is in it, or the temporary
\* file is unlinked, and the handler returns.
RCleanup(r) ==
    LET gone == {p \in fs : Dirname(p) = TempDirOf(r)}
                  \cup (IF handlers[r] = "upload_video" THEN {TempFileOf(r)} ELSE {}) IN
    /\ StepAt(r) = "cleanup"
    /\ Advance(r, {}, gone)
    /\ fs' = fs \ gone
    /\ dirs' = dirs \ {TempDirOf(r)}
    /\ UNCHANGED handlers
    /\ ReqFrame

ReqNext ==
    \E r \in Requests :
        \/ RAbort(r)
        \/ RGenerate(r)
        \/ RCreateTempDir(r)
        \/ RCreateTempFile(r)
        \/ RDownload(r)
        \/ RMerge(r)
        \/ RWriteManifest(r)
        \/ RConcat(r)
        \/ RUpload(r)
        \/ RCleanup(r)

SpecRequests == ReqInit /\ [][ReqNext]_vars

(***************************************************************************)
(* download_file, the streaming downloader.  Its three copies              *)
(* (src/api/src/main.py, src/api/src/merge_av.py and                       *)
(* src/functions/peaceful-video-generation/src/main.py) run the same       *)
(* statements; the latter two log an exception and raise it again.  The    *)
(* server is the environment: its status, its content-length header and    *)
(* the way it cuts the content into chunks are chosen nondeterministically.*)
(* A second call with the same url and the same local_filename follows the *)
(* first.                                                                  *)
(***************************************************************************)

\* The longest resource served.
MaxBytes == 2

Bytes == {"a", "b"}

\* The resources a url may serve, and what local_filename may hold before.
Contents == UNION {[1..n -> Bytes] : n \in 0..MaxBytes}
PriorContents == {<<>>, <<"x">>, <<"x", "y", "z">>}

\* The statuses of the response requests.get returns, redirects followed.
DownloadStatuses == {200, 404, 500}

\* The content-length headers of a response: absent, or a decimal number.
LengthHeaders == {None} \cup {ToString(n) : n \in 0..MaxBytes}

\* int(response.headers.get('content-length', 0))
ParseLength(h) ==
    IF h = None THEN 0 ELSE CHOOSE n \in 0..MaxBytes : ToString(n) = h

\* open(local_filename, 'ab') keeps what the file holds.
OpenForAppending(d) == d

\* open(local_filename, 'wb') empties the file.
OpenForWriting(d) == <<>>

\* Progress is reported after every chunk, whatever the total.
AlwaysReports(total) == TRUE

\* if total_size: the progress of a chunk is computed and logged.
ReportsProgress(total) == total # 0

\* The bytes of a sequence of chunks, in order.
RECURSIVE Flatten(_)
Flatten(cs) == IF cs = <<>> THEN <<>> ELSE Head(cs) \o Flatten(Tail(cs))

DownloadPath == Join(TempDir, "audio.mp3")

DlInit ==
    /\ \E c \in Contents, d \in PriorContents : DownloadStart(c, d)
    /\ UploadIdle
    /\ NormIdle
    /\ PipeIdle
    /\ ReqIdle
    /\ RtIdle
    /\ JobIdle
    /\ TfIdle

DlFrame ==
    UNCHANGED <<upload_vars, norm_vars, pipe_vars, req_vars, rt_vars, job_vars,
                tf_vars>>

\* response = requests.get(url, stream=True); response.raise_for_status();
\* total_size = int(response.headers.get('content-length', 0))
DlGet ==
    /\ dl_pc = "get"
    /\ \E st \in DownloadStatuses, h \in LengthHeaders :
         /\ status_code' = st
         /\ IF RaisesForStatus(st)
            THEN /\ dl_pc' = "raised"
                 /\ dl_result' = [kind |-> "raised"]
                 /\ UNCHANGED <<total_size, stream>>
            ELSE /\ dl_pc' = "open"
                 /\ total_size' = ParseLength(h)
                 /\ stream' = content
                 /\ UNCHANGED dl_result
    /\ UNCHANGED <<dl_calls, content, dest, downloaded, prior, received, reports,
                   first_dest>>
    /\ DlFrame

\* with open(local_filename, 'wb') as f: ...; downloaded = 0
DlOpen ==
    /\ dl_pc = "open"
    /\ dest' = OpenForWriting(dest)
    /\ downloaded' = 0
    /\ dl_pc' = "stream"
    /\ UNCHANGED <<dl_calls, content, status_code, total_size, stream, dl_result,
                   prior, received, reports, first_dest>>
    /\ DlFrame

\* One turn of for chunk in response.iter_content(chunk_size=8192).
DlChunk ==
    /\ dl_pc = "stream"
    /\ stream # <<>>
    /\ \E n \in 1..Len(stream) :
         LET chunk == SubSeq(stream, 1, n) IN
         /\ dest' = dest \o chunk
         /\ received' = Append(received, chunk)
         /\ downloaded' = downloaded + Len(chunk)
         /\ reports' = IF ReportsProgress(total_size)
                       THEN Append(reports, downloaded')
                       ELSE reports
         /\ stream' = SubSeq(stream, n + 1, Len(stream))
    /\ UNCHANGED <<dl_pc, dl_calls, content, status_code, total_size, dl_result,
                   prior, first_dest>>
    /\ DlFrame

\* iter_content raises: the connection broke before the end of the body.
DlStreamFails ==
    /\ dl_pc = "stream"
    /\ stream # <<>>
    /\ dl_pc' = "raised"
    /\ dl_result' = [kind |-> "raised"]
    /\ UNCHANGED <<dl_calls, content, status_code, total_size, stream, dest,
                   downloaded, prior, received, reports, first_dest>>
    /\ DlFrame

\* return local_filename
DlReturn ==
    /\ dl_pc = "stream"
    /\ stream = <<>>
    /\ dl_pc' = "returned"
    /\ dl_result' = [kind |-> "returned", path |-> DownloadPath]
    /\ UNCHANGED <<dl_calls, content, status_code, total_size, stream, dest,
                   downloaded, prior, received, reports, first_dest>>
    /\ DlFrame

\* The caller calls download_file again with the same url and local_filename.
DlAgain ==
    /\ dl_pc = "returned"
    /\ dl_calls = 1
    /\ dl_calls' = 2
    /\ first_dest' = dest
    /\ dl_pc' = "get"
    /\ status_code' = 0
    /\ total_size' = 0
    /\ downloaded' = 0
    /\ dl_result' = NoResult
    /\ received' = <<>>
    /\ reports' = <<>>
    /\ UNCHANGED <<content, stream, dest, prior>>
    /\ DlFrame

DlNext ==
    \/ DlGet
    \/ DlOpen
    \/ DlChunk
    \/ DlStreamFails
    \/ DlReturn
    \/ DlAgain

SpecDownload == DlInit /\ [][DlNext]_vars

(***************************************************************************)
(* The application main.app of src/api/src/main.py under a test client     *)
(* that sends one request after another, as src/api/src/test.py does.      *)
(* The routes of the application are those its module declares; the        *)
(* routers of the other modules are APIRouter objects of their own.        *)
(***************************************************************************)

\* The most requests the test client sends.
MaxRequests == 2

Methods == {"GET", "POST"}

Paths == {"/", "/api/v1/generate-peaceful-content", "/generate-music", "/merge-av"}

Route(m, p, h) == [method |-> m, path |-> p, handler |-> h]

\* The routes declared on app itself: @app.post, @app.get.
AppRoutes ==
    {Route("POST", "/api/v1/generate-peaceful-content", "generate_peaceful_content"),
     Route("GET", "/", "read_root")}

\* The routes declared on the router of each module.
RouterRoutes(module) ==
    CASE module = "music_generation" ->
           {Route("POST", "/generate-music", "generate_music")}
      [] module = "merge_av" -> {Route("POST", "/merge-av", "merge_av")}
      [] module = "mux_upload" -> {Route("POST", "/upload-to-mux", "upload_video")}
      [] module = "viz_generation" ->
           {Route("POST", "/generate-visualization", "generate_visualization")}

\* The routers main.py includes into app: it calls app.include_router nowhere.
IncludedRouters == {}

\* The routing table of app.
Routes == AppRoutes \cup UNION {RouterRoutes(r) : r \in IncludedRouters}

\* The fields of GenerationResponse; the response model serialises all of them.
GenerationResponseKeys ==
    {"success", "mux_playback_id", "mux_playback_url", "status",
     "execution_time_seconds", "error"}

RtInit ==
    /\ \E m \in Methods, p \in Paths : RequestReceived(m, p, <<>>)
    /\ UploadIdle
    /\ NormIdle
    /\ PipeIdle
    /\ ReqIdle
    /\ DlIdle
    /\ JobIdle
    /\ TfIdle

RtFrame ==
    UNCHANGED <<upload_vars, norm_vars, pipe_vars, req_vars, dl_vars, job_vars,
                tf_vars>>

\* The application answers the request with r.
Answer(r) ==
    /\ rt_response' = r
    /\ rt_pc' = "answered"
    /\ rt_log' = Append(rt_log, [method |-> rt_method, path |-> rt_path,
                                 status_code |-> r.status_code])

\* A route of the application matches the path and the method.
RtMatch ==
    /\ rt_pc = "received"
    /\ \E route \in Routes :
         /\ route.path = rt_path
         /\ route.method = rt_method
         /\ rt_handler' = route.handler
    /\ rt_pc' = "handling"
    /\ UNCHANGED <<rt_method, rt_path, rt_response, rt_log>>
    /\ RtFrame

\* A route matches the path, none matches the method with it: 405.
RtMethodNotAllowed ==
    /\ rt_pc = "received"
    /\ \E route \in Routes : route.path = rt_path
    /\ \A route \in Routes : route.path = rt_path => route.method # rt_method
    /\ Answer([status_code |-> 405, keys |-> {"detail"}, status |-> None])
    /\ UNCHANGED <<rt_method, rt_path, rt_handler>>
    /\ RtFrame

\* No route matches the path: 404.
RtNotFound ==
    /\ rt_pc = "received"
    /\ \A route \in Routes : route.path # rt_path
    /\ Answer([status_code |-> 404, keys |-> {"detail"}, status |-> None])
    /\ UNCHANGED <<rt_method, rt_path, rt_handler>>
    /\ RtFrame

\* read_root
RtReadRoot ==
    /\ rt_pc = "handling"
    /\ rt_handler = "read_root"
    /\ Answer([status_code |-> 200, keys |-> {"status", "service", "endpoints"},
               status |-> "healthy"])
    /\ UNCHANGED <<rt_method, rt_path, rt_handler>>
    /\ RtFrame

\* generate_peaceful_content returns a GenerationResponse, of success or of
\* failure.
RtGeneratePeaceful ==
    /\ rt_pc = "handling"
    /\ rt_handler = "generate_peaceful_content"
    /\ \E st \in {"completed", "failed"} :
         Answer([status_code |-> 200, keys |-> GenerationResponseKeys, status |-> st])
    /\ UNCHANGED <<rt_method, rt_path, rt_handler>>
    /\ RtFrame

\* The test client sends its next request.
RtNextRequest ==
    /\ rt_pc = "answered"
    /\ Len(rt_log) < MaxRequests
    /\ \E m \in Methods, p \in Paths :
         /\ rt_method' = m
         /\ rt_path' = p
    /\ rt_pc' = "received"
    /\ rt_handler' = None
    /\ rt_response' = NoHttpResponse
    /\ UNCHANGED rt_log
    /\ RtFrame

RtNext ==
    \/ RtMatch
    \/ RtMethodNotAllowed
    \/ RtNotFound
    \/ RtReadRoot
    \/ RtGeneratePeaceful
    \/ RtNextRequest

SpecRouting == RtInit /\ [][RtNext]_vars

(***************************************************************************)
(* The background-job functions, music-gen-test.py and viz-gen-test.py of  *)
(* src/functions/peaceful-video-generation/src: main creates a job         *)
(* document, schedules the generation as a task of the event loop and      *)
(* returns; the task runs process_music_generation or                      *)
(* process_visualization_generation.  The database and the generation      *)
(* model are the environment: each call of them returns or raises.         *)
(***************************************************************************)

JobFunctions == {"music_gen_test", "viz_gen_test"}

\* The paths of the requests; the runtime gives a path that starts with "/".
JobPaths == {"/", "/generate", "/status"}

\* No path is turned away.
NoPathRejected(p) == FALSE

\* if context.req.path and context.req.path != "/"
PathRejected(p) == p # "" /\ p # "/"

\* The 'output_url' the task computes from the output of the model.
JobOutputUrl(fn, v) ==
    IF fn = "music_gen_test"
    THEN MusicOutputUrl("music_gen_test", v)
    ELSE VizOutputUrl("viz_gen_test", v)

JobInit ==
    /\ \E fn \in JobFunctions, p \in JobPaths, tok \in BOOLEAN : JobStart(fn, p, tok)
    /\ UploadIdle
    /\ NormIdle
    /\ PipeIdle
    /\ ReqIdle
    /\ DlIdle
    /\ RtIdle
    /\ TfIdle

JobFrame ==
    UNCHANGED <<upload_vars, norm_vars, pipe_vars, req_vars, dl_vars, rt_vars,
                tf_vars>>

\* return context.res.json(body, status)
JobReturn(status, keys) ==
    /\ job_response' = [status_code |-> status, keys |-> keys, status |-> None]
    /\ jpc' = "returned"

\* Handle non-API requests: 404 for a path other than the root.
JCheckPath ==
    /\ jpc = "check_path"
    /\ IF PathRejected(job_path)
       THEN JobReturn(404, {"success", "error", "path"})
       ELSE /\ jpc' = "check_token"
            /\ UNCHANGED job_response
    /\ UNCHANGED <<job_fn, job_path, job_token, job_doc, task_pc, gen_started,
                   gen_outcome, job_output, task_unhandled>>
    /\ JobFrame

\* Check environment variables: 500 when REPLICATE_API_TOKEN is not set.
JCheckToken ==
    /\ jpc = "check_token"
    /\ IF ~job_token
       THEN JobReturn(500, {"success", "error"})
       ELSE /\ jpc' = "create_job"
            /\ UNCHANGED job_response
    /\ UNCHANGED <<job_fn, job_path, job_token, job_doc, task_pc, gen_started,
                   gen_outcome, job_output, task_unhandled>>
    /\ JobFrame

\* job = create_job_document(...): the database creates the document with
\* status 'processing', or raises and main returns the setup error.
JCreateJob ==
    /\ jpc = "create_job"
    /\ \E created \in BOOLEAN :
         IF created
         THEN /\ job_doc' = [exists |-> TRUE, status |-> "processing",
                             output_url |-> NoUrl]
              /\ jpc' = "create_task"
              /\ UNCHANGED job_response
         ELSE /\ JobReturn(500, {"success", "error"})
              /\ UNCHANGED job_doc
    /\ UNCHANGED <<job_fn, job_path, job_token, task_pc, gen_started, gen_outcome,
                   job_output, task_unhandled>>
    /\ JobFrame

\* asyncio.create_task(process_..._generation(...)): the task is scheduled.
JCreateTask ==
    /\ jpc = "create_task"
    /\ task_pc' = "scheduled"
    /\ jpc' = "respond"
    /\ UNCHANGED <<job_fn, job_path, job_token, job_doc, job_response, gen_started,
                   gen_outcome, job_output, task_unhandled>>
    /\ JobFrame

\* Return job ID immediately.
JRespond ==
    /\ jpc = "respond"
    /\ JobReturn(200, {"success", "message", "job_id"})
    /\ UNCHANGED <<job_fn, job_path, job_token, job_doc, task_pc, gen_started,
                   gen_outcome, job_output, task_unhandled>>
    /\ JobFrame

\* The event loop runs the task.  main awaits nothing between create_task and
\* its return, so the loop gets to the task only when main has returned.  The
\* task calls the generation model.
TStart ==
    /\ task_pc = "scheduled"
    /\ jpc = "returned"
    /\ task_pc' = "generating"
    /\ gen_started' = TRUE
    /\ UNCHANGED <<job_fn, job_path, job_token, jpc, job_doc, job_response,
                   gen_outcome, job_output, task_unhandled>>
    /\ JobFrame

\* replicate.run returns an output or raises.
TGenerate ==
    /\ task_pc = "generating"
    /\ \/ \E v \in GenOutputs :
            /\ job_output' = v
            /\ gen_outcome' = "returned"
            /\ task_pc' = "generated"
       \/ /\ gen_outcome' = "raised"
          /\ task_pc' = "failing"
          /\ UNCHANGED job_output
    /\ UNCHANGED <<job_fn, job_path, job_token, jpc, job_doc, job_response,
                   gen_started, task_unhandled>>
    /\ JobFrame

\* Update job with success: the 'output_url' is computed, then the database is
\* called; either may raise, and the except clause takes over.
TUpdateCompleted ==
    /\ task_pc = "generated"
    /\ LET url == JobOutputUrl(job_fn, job_output) IN
       IF url.kind = "raises"
       THEN /\ task_pc' = "failing"
            /\ UNCHANGED job_doc
       ELSE \E updated \in BOOLEAN :
              IF updated
              THEN /\ job_doc' = [exists |-> TRUE, status |-> "completed",
                                  output_url |-> url]
                   /\ task_pc' = "ended"
              ELSE /\ task_pc' = "failing"
                   /\ UNCHANGED job_doc
    /\ UNCHANGED <<job_fn, job_path, job_token, jpc, job_response, gen_started,
                   gen_outcome, job_output, task_unhandled>>
    /\ JobFrame

\* except Exception: update job with error.  The database call of the except
\* clause is in no try block: when it raises, the task ends with the exception.
TUpdateFailed ==
    /\ task_pc = "failing"
    /\ \E updated \in BOOLEAN :
         IF updated
         THEN /\ job_doc' = [job_doc EXCEPT !.status = "failed"]
              /\ UNCHANGED task_unhandled
         ELSE /\ task_unhandled' = TRUE
              /\ UNCHANGED job_doc
    /\ task_pc' = "ended"
    /\ UNCHANGED <<job_fn, job_path, job_token, jpc, job_response, gen_started,
                   gen_outcome, job_output>>
    /\ JobFrame

JobNext ==
    \/ JCheckPath
    \/ JCheckToken
    \/ JCreateJob
    \/ JCreateTask
    \/ JRespond
    \/ TStart
    \/ TGenerate
    \/ TUpdateCompleted
    \/ TUpdateFailed

SpecJobs == JobInit /\ [][JobNext]_vars

(***************************************************************************)
(* The music-generation test function, test.py of                          *)
(* src/functions/peaceful-video-generation/src, on the event loop.  main   *)
(* creates a task for generate_music and awaits it through                 *)
(* asyncio.wait_for with a timeout of 25 seconds.  The loop has one        *)
(* thread: it runs one callback at a time, to the callback's next await or *)
(* to its end, and a timer that is due joins the ready callbacks behind    *)
(* those already there.  generate_music awaits nothing: it calls           *)
(* replicate.run, which blocks the thread until the model answers.         *)
(***************************************************************************)

\* The paths of the requests; the runtime gives a path that starts with "/".
TestFnPaths == {"/", "/generate", "/status"}

\* The exceptions replicate.run raises, by the except clause that takes them.
GenExceptions == {"ModelError", "ReplicateError", "RuntimeError"}

TfInit ==
    /\ \E p \in TestFnPaths, tok \in BOOLEAN : TestFnStart(p, tok)
    /\ UploadIdle
    /\ NormIdle
    /\ PipeIdle
    /\ ReqIdle
    /\ DlIdle
    /\ RtIdle
    /\ JobIdle

TfFrame ==
    UNCHANGED <<upload_vars, norm_vars, pipe_vars, req_vars, dl_vars, rt_vars,
                job_vars>>

\* return context.res.json(body, status)
TfReturn(status, keys, type, out) ==
    /\ tf_response' = [status_code |-> status, keys |-> keys, error_type |-> type,
                       output |-> out]
    /\ tf_pc' = "returned"

\* Handle non-API requests: 404 for a path other than the root.
TfCheckPath ==
    /\ tf_pc = "check_path"
    /\ IF tf_path # "" /\ tf_path # "/"
       THEN TfReturn(404, {"success", "error", "path"}, None, None)
       ELSE /\ tf_pc' = "check_token"
            /\ UNCHANGED tf_response
    /\ UNCHANGED <<tf_path, tf_token, tf_task, tf_ready, tf_timer, tf_late,
                   tf_output, tf_exc>>
    /\ TfFrame

\* Check environment: 500 when REPLICATE_API_TOKEN is not set.
TfCheckToken ==
    /\ tf_pc = "check_token"
    /\ IF ~tf_token
       THEN TfReturn(500, {"success", "error"}, None, None)
       ELSE /\ tf_pc' = "wait_for"
            /\ UNCHANGED tf_response
    /\ UNCHANGED <<tf_path, tf_token, tf_task, tf_ready, tf_timer, tf_late,
                   tf_output, tf_exc>>
    /\ TfFrame

\* task = asyncio.create_task(generate_music(...));
\* output = await asyncio.wait_for(task, timeout=25.0): the first step of the
\* task is made ready, the timeout handle is set, and main is suspended.
TfWaitFor ==
    /\ tf_pc = "wait_for"
    /\ tf_task' = "pending"
    /\ tf_ready' = Append(tf_ready, "task_step")
    /\ tf_timer' = "pending"
    /\ tf_pc' = "waiting"
    /\ UNCHANGED <<tf_path, tf_token, tf_late, tf_output, tf_exc, tf_response>>
    /\ TfFrame

\* The callbacks the loop runs in its next iteration: a timer that is due joins
\* the ready callbacks at the end.
Runnable == IF tf_timer = "due" THEN Append(tf_ready, "timeout") ELSE tf_ready

\* The timeout handle after the loop has looked at its timers.
TimerTaken == IF tf_timer = "due" THEN "queued" ELSE tf_timer

\* The loop runs the first step of the task: generate_music enters
\* replicate.run, which does not give the thread back.
LoopRunsTask ==
    /\ tf_task = "pending"
    /\ Runnable # <<>>
    /\ Head(Runnable) = "task_step"
    /\ tf_task' = "blocked"
    /\ tf_ready' = Tail(Runnable)
    /\ tf_timer' = TimerTaken
    /\ UNCHANGED <<tf_path, tf_token, tf_pc, tf_late, tf_output, tf_exc,
                   tf_response>>
    /\ TfFrame

\* 25 seconds have passed since wait_for was called.  The first step of the
\* task was ready when the handle was set, so it has run by then: the time
\* passes inside replicate.run, or between its end and the next iteration of
\* the loop.
TimerExpires ==
    /\ tf_timer = "pending"
    /\ tf_task \in {"blocked", "returned", "raised"}
    /\ tf_timer' = "due"
    /\ UNCHANGED <<tf_path, tf_token, tf_pc, tf_task, tf_ready, tf_late, tf_output,
                   tf_exc, tf_response>>
    /\ TfFrame

\* replicate.run returns or raises: the task is done, and its done-callback,
\* which resumes main, is made ready.
GenerationEnds ==
    /\ tf_task = "blocked"
    /\ \/ \E v \in GenOutputs :
            /\ tf_output' = v
            /\ tf_task' = "returned"
            /\ UNCHANGED tf_exc
       \/ \E x \in GenExceptions :
            /\ tf_exc' = x
            /\ tf_task' = "raised"
            /\ UNCHANGED tf_output
    /\ tf_late' = (tf_timer = "due")
    /\ tf_ready' = Append(tf_ready, "task_done")
    /\ UNCHANGED <<tf_path, tf_token, tf_pc, tf_timer, tf_response>>
    /\ TfFrame

\* The status of the responses that name none.
DefaultStatus == 200

\* The loop resumes main with the callback at the head of the ready ones.
\* Resumed by the done-callback of the task, wait_for cancels its timeout
\* handle and gives the result of the task or raises its exception; resumed by
\* the timeout, it cancels the task and raises TimeoutError.
LoopResumesMain ==
    /\ tf_pc = "waiting"
    /\ tf_task # "blocked"
    /\ Runnable # <<>>
    /\ Head(Runnable) \in {"task_done", "timeout"}
    /\ IF Head(Runnable) = "timeout"
       THEN /\ TfReturn(408, {"success", "error", "error_type",
                              "execution_time_seconds"}, "TimeoutError", None)
            /\ tf_task' = "cancelled"
            /\ tf_timer' = "run"
       ELSE /\ IF tf_task = "returned"
               THEN TfReturn(DefaultStatus, {"success", "output", "message",
                                             "execution_time_seconds"},
                             None, Str(tf_output))
               ELSE TfReturn(DefaultStatus, {"success", "error", "error_type",
                                             "execution_time_seconds"},
                             tf_exc, None)
            /\ tf_timer' = "cancelled"
            /\ UNCHANGED tf_task
    /\ tf_ready' = <<>>
    /\ UNCHANGED <<tf_path, tf_token, tf_late, tf_output, tf_exc>>
    /\ TfFrame

TfNext ==
    \/ TfCheckPath
    \/ TfCheckToken
    \/ TfWaitFor
    \/ LoopRunsTask
    \/ TimerExpires
    \/ GenerationEnds
    \/ LoopResumesMain

SpecTestFn == TfInit /\ [][TfNext]_vars

(***************************************************************************)
(* The claims.                                                             *)
(***************************************************************************)

\* The kinds of remote call.
CallKinds == {"create", "put", "get_upload", "get_asset", "create_asset"}

\* No remote call was made after observation o.
NoCallAfter(o) == \A k \in CallKinds : <<o, k>> \notin called_after

\* C1: as soon as a get_asset poll returns status "errored" the operation
\* fails at once: no further get_asset call is made, and the failure raised
\* to the caller is the asset-creation failure carrying the platform's errors.
C1_ErroredFailsImmediately ==
    "errored" \in seen =>
        /\ <<"errored", "get_asset">> \notin called_after
        /\ pc = "done"
        /\ result = Raised("Exception", "Asset creation failed", asset.errors)

\* C2: when the first "ready" comes at attempt k <= 30 with no "errored"
\* before it, polling stops at attempt k, the operation succeeds and returns
\* the first playback id of that asset with the stream URL built from it.
C2_ReadyReturnsFirstPlaybackId ==
    ("ready" \in seen /\ "errored" \notin seen) =>
        /\ NoCallAfter("ready")
        /\ ncalls.get_asset <= 30
        /\ pc \in {"asset_polled", "done"}
        /\ pc = "done" =>
            /\ result.kind = "returned"
            /\ result.playback_id = Head(ready_ids)
            /\ result.playback_url
                 = "https://stream.mux.com/" \o Head(ready_ids) \o ".m3u8"

C2_Witness ==
    /\ pc = "done"
    /\ "ready" \in seen
    /\ "errored" \notin seen
    /\ ncalls.get_asset = 3
    /\ ready_ids = <<"p2", "p1">>
    /\ result.kind = "returned"

\* C3: when every get_asset poll returns a status other than "ready" and
\* "errored", exactly 30 get_asset calls are made and the operation fails with
\* "Asset failed to become ready in time"; a 31st call is never made.
C3_AssetTimeoutAfterThirty ==
    /\ ncalls.get_asset <= 30
    /\ ( /\ pc = "done"
         /\ first_id # None
         /\ "ready" \notin seen
         /\ "errored" \notin seen
         /\ "api_error_get_asset" \notin seen )
       => /\ ncalls.get_asset = 30
          /\ result = Raised("Exception", "Asset failed to become ready in time", <<>>)

C3_Witness ==
    /\ pc = "done"
    /\ ncalls.get_asset = 30
    /\ seen \cap {"ready", "errored", "api_error"} = {}
    /\ result.kind = "raised"
    /\ result.error = "Asset failed to become ready in time"

\* C4: at most 30 get_direct_upload calls are made; the first call that
\* returns a non-empty asset id ends upload polling and asset polling starts
\* with that id; when all 30 calls return no asset id the operation fails with
\* "Failed to get asset ID after upload" and get_asset is never called.
C4_UploadPolling ==
    /\ ncalls.get_upload <= 30
    /\ first_id # None =>
        /\ <<"asset_id", "get_upload">> \notin called_after
        /\ asset_id = first_id
        /\ polled_ids \subseteq {first_id}
        /\ pc = "done" => ncalls.get_asset >= 1
    /\ first_id = None => ncalls.get_asset = 0
    /\ ( /\ pc = "done"
         /\ ncalls.get_upload = 30
         /\ first_id = None
         /\ "api_error_get_upload" \notin seen )
       => result = Raised("Exception", "Failed to get asset ID after upload", <<>>)

C4_Witness ==
    /\ pc = "done"
    /\ ncalls.get_upload = 30
    /\ first_id = None
    /\ "api_error" \notin seen
    /\ ncalls.get_asset = 0
    /\ result.kind = "raised"
    /\ result.error = "Failed to get asset ID after upload"

\* C5: the timeout failure and the errored failure are distinct: a run in
\* which "errored" was observed never ends with a timeout failure, and a run
\* in which "errored" was never observed never ends with the errored failure.
C5_TimeoutDistinctFromErrored ==
    (pc = "done" /\ result.kind = "raised") =>
        /\ "errored" \in seen =>
             result.error \notin {"Asset failed to become ready in time",
                                  "Failed to get asset ID after upload"}
        /\ "errored" \notin seen => result.error # "Asset creation failed"

\* Sum of the lengths of the PUT bodies sent.
RECURSIVE SumLen(_)
SumLen(ps) == IF ps = <<>> THEN 0 ELSE Head(ps).len + SumLen(Tail(ps))

\* The byte upload is over and every PUT was accepted by the code.
BytesUploaded == pc \in {"poll_upload", "upload_polled", "poll_asset", "asset_polled"}

\* C6: a file of at most 5 MiB (boundary included) is sent in exactly one
\* PUT; a larger file is sent in chunk PUTs whose lengths sum to file_size and
\* whose Content-Range ranges start at 0, each continue at the previous end
\* + 1, end at file_size - 1 and declare the total file_size.
C6_ChunkingByFileSize ==
    /\ file_size <= 5 * 1024 * 1024 => Len(puts) <= 1
    /\ (BytesUploaded /\ file_size <= 5 * 1024 * 1024) => Len(puts) = 1
    /\ file_size > 5 * 1024 * 1024 =>
        /\ \A i \in 1..Len(puts) :
            /\ puts[i].ranged
            /\ puts[i].total = file_size
            /\ puts[i].lo = IF i = 1 THEN 0 ELSE puts[i - 1].hi + 1
            /\ puts[i].hi - puts[i].lo + 1 = puts[i].len
        /\ BytesUploaded =>
            /\ Len(puts) >= 1
            /\ puts[Len(puts)].hi = file_size - 1
            /\ SumLen(puts) = file_size

\* C7: a PUT answered with a status outside {200, 201, 308} makes the
\* operation fail: no further PUT is sent and no poll is made.
C7_BadPutStatusAborts ==
    "bad_put" \in seen =>
        /\ NoCallAfter("bad_put")
        /\ pc = "done"
        /\ result.kind = "raised"

\* C8: a playback id is returned only for an asset whose status a get_asset
\* poll of the same operation observed as "ready".
C8_PlaybackOnlyWhenReady ==
    result.kind = "returned" =>
        /\ "ready" \in seen
        /\ result.asset_id \in polled_ids

\* Position of a call kind in the order create, PUT, get-upload, get-asset.
Rank(k) ==
    CASE k = "create" -> 1
      [] k = "put" -> 2
      [] k = "get_upload" -> 3
      [] k = "get_asset" -> 4

\* C9: the remote calls come in the order create-upload (once), PUTs,
\* get-upload polls, get-asset polls; no get-asset call precedes the asset id;
\* after a terminal state (ready, errored, either timeout) no call is made.
C9_CallOrder ==
    /\ ncalls.create <= 1
    /\ \A o, k \in {"create", "put", "get_upload", "get_asset"} :
         <<o, k>> \in called_after => Rank(o) <= Rank(k)
    /\ ncalls.put > 0 => "create" \in seen
    /\ ncalls.get_asset > 0 => first_id # None
    /\ \A t \in {"ready", "errored", "upload_timeout", "asset_timeout"} :
         NoCallAfter(t)

\* C10: an ApiException raised by the platform in any step, polls included,
\* is propagated to the caller with the upstream message and is not retried:
\* no call to the platform follows it.
C10_ApiErrorPropagates ==
    "api_error" \in seen =>
        /\ NoCallAfter("api_error")
        /\ pc = "done"
        /\ result = Raised("ApiException", "upstream", <<>>)

\* The value the normalisation rule gives: for a non-empty list the stringified
\* first element, otherwise the stringified whole value.
Normalized(v) ==
    IF v.t = "list" /\ Len(v.items) > 0 THEN Url(Str(v.items[1])) ELSE Url(Str(v))

\* C11: every caller of the music model normalizes the result the same way: a
\* non-empty list yields the stringified first element, an empty list or a
\* non-list value yields the stringified whole value.
C11_MusicNormalizedAlike ==
    (caller \in MusicCallers /\ output_url # NoUrl) => output_url = Normalized(output)

\* C12: every caller of the visualization / video model normalizes the result
\* that way too, and handling the result never raises.
C12_VizNormalizedAlike ==
    (caller \in VizCallers /\ output_url # NoUrl) => output_url = Normalized(output)

\* Stage st raised during the request.
Failed(st) == \E i \in 1..Len(failed) : failed[i] = st

\* The looping operation has completed: it returned or it raised.
LoopCompleted == "loop_ok" \in events \/ Failed("loop")

\* C13: the looping operation with loop count N writes a manifest of exactly N
\* lines, each naming the same merged clip, and the manifest file does not
\* exist once the operation has completed, whether the concat tool succeeded
\* or failed.
C13_ManifestWrittenAndRemoved ==
    /\ "loop" \in events =>
          /\ Len(manifest) = loops
          /\ \A i \in 1..Len(manifest) : manifest[i] = MergedPath(endpoint, TempDir)
    /\ LoopCompleted => ConcatFile(endpoint, TempDir) \notin fs

\* The credentials that the services called by a handler's pipeline need.
RequiredCredentials(e) ==
    CASE e \in {"peaceful", "function"} -> Credentials
      [] e = "upload_video" -> {"MUX_TOKEN_ID", "MUX_TOKEN_SECRET"}
      [] OTHER -> {}

\* The number of network calls made so far in the request.
NetworkCalls ==
    calls.music + calls.viz + calls.audio + calls.video
    + ncalls.create + ncalls.put + ncalls.get_upload + ncalls.get_asset
    + ncalls.create_asset

\* C14: when a credential that the handler's pipeline needs is missing from
\* the environment, no network call is made and the request ends with a
\* configuration-error response.
C14_MissingCredentialFailsFirst ==
    ~(RequiredCredentials(endpoint) \subseteq env) =>
        /\ NetworkCalls = 0
        /\ ppc = "done" => (~response.success /\ response.error = "config")

\* The place of each stage in the order of the pipeline.
StageRank(st) ==
    CASE st \in {"config", "config_ok"} -> 0
      [] st \in {"music", "viz", "music_ok", "viz_ok"} -> 1
      [] st \in {"dl_audio", "dl_video", "dl_audio_ok", "dl_video_ok"} -> 2
      [] st \in {"merge", "merge_ok"} -> 3
      [] st \in {"loop", "loop_ok"} -> 4
      [] st \in {"save"} -> 4
      [] st \in {"upload", "upload_ok"} -> 5

\* What upload_to_mux observed of a failed upload or a failed poll.
UploadFailures == {"api_error", "errored", "bad_put", "upload_timeout", "asset_timeout"}

\* A stage of the request failed.
SomeStageFailed == Len(failed) > 0 \/ seen \cap UploadFailures # {}

\* A structured failure response: success false, a message, the elapsed time.
IsFailureResponse(r) ==
    /\ ~r.success
    /\ "error" \in r.keys
    /\ r.error # None
    /\ r.keys \cap {"execution_time_seconds", "processing_time"} # {}

\* C15: a failure at any stage aborts the request: no later stage is entered,
\* and the handler returns a structured failure response, neither raising nor
\* returning success.
C15_FailureAborts ==
    /\ \A i \in 1..Len(failed) : \A ev \in events :
          StageRank(ev) <= StageRank(failed[i])
    /\ ppc = "done" /\ SomeStageFailed => IsFailureResponse(response)

\* C16: in the combined pipeline the downloads start only after both
\* generation results exist, the merge only after both downloads finished, the
\* loop only after the merge, the upload only after the loop, and a success
\* response is produced only after the upload returned a playback id.
C16_StageOrder ==
    endpoint \in {"peaceful", "function"} =>
        /\ events \cap {"dl_audio", "dl_video"} # {} => {"music_ok", "viz_ok"} \subseteq events
        /\ "merge" \in events => {"dl_audio_ok", "dl_video_ok"} \subseteq events
        /\ "loop" \in events => "merge_ok" \in events
        /\ "upload" \in events => "loop_ok" \in events
        /\ response.success =>
              /\ "upload_ok" \in events
              /\ result.kind = "returned"
              /\ response.playback_id = result.playback_id

\* The second generation call is made while the first has not returned.
SecondDispatchedConcurrently ==
    (in_flight' # in_flight /\ {"music", "viz"} \subseteq events') =>
        in_flight' = {"music", "viz"}

\* A download is made only when both generation calls have returned a result.
DownloadsAfterGeneration ==
    (calls'.audio + calls'.video > calls.audio + calls.video) =>
        (in_flight = {} /\ {"music_ok", "viz_ok"} \subseteq events)

\* C17: music generation and visualization generation are dispatched
\* concurrently, so that both are in flight at once, and both have completed
\* before any download starts.
C17_GenerationConcurrent ==
    [][endpoint = "peaceful" =>
           (SecondDispatchedConcurrently /\ DownloadsAfterGeneration)]_vars

\* C19: the temporary directory of the pipeline handlers and the temporary
\* file of the upload handler no longer exist when the handler has returned,
\* on the success path and on every failure path.
C19_TempStorageRemoved ==
    ppc = "done" => (TempDir \notin dirs /\ TempFile \notin fs)

\* C20: within one request each generation model is called at most once and
\* each download is requested at most once, also after a failure.
C20_NoRetries ==
    /\ calls.music <= 1
    /\ calls.viz <= 1
    /\ calls.audio <= 1
    /\ calls.video <= 1

\* A request that failed after its generation calls and its first download.
C20_Witness ==
    /\ ppc = "done"
    /\ Failed("dl_video")
    /\ calls = [music |-> 1, viz |-> 1, audio |-> 1, video |-> 1]

\* C18: two concurrent requests in separate worker processes share no file
\* path: no path read, written or deleted by one request is written or deleted
\* by the other.
C18_NoSharedPaths ==
    \A r \in Requests : \A q \in Requests \ {r} :
        (reads[r] \cup writes[r]) \cap writes[q] = {}

\* C21: every response of every entry point, on success and on every failure
\* path, carries at least the fields success, status and
\* execution_time_seconds.
C21_ResponseFields ==
    ppc = "done" => {"success", "status", "execution_time_seconds"} \subseteq response.keys

\* C29: every response of the pipeline endpoint and of the upload endpoint has
\* success true exactly with status 'completed', and then no error and both
\* playback_id and playback_url set; success false exactly with status
\* 'failed', and then an error and neither playback_id nor playback_url.
C29_ResponseConsistent ==
    (ppc = "done" /\ endpoint \in {"peaceful", "upload_video"}) =>
        /\ response.status \in {"completed", "failed"}
        /\ response.success <=> response.status = "completed"
        /\ response.success =>
              /\ response.error = None
              /\ "error" \notin response.keys
              /\ response.playback_id # None
              /\ response.playback_url # None
        /\ ~response.success =>
              /\ response.error # None
              /\ "error" \in response.keys
              /\ response.playback_id = None
              /\ response.playback_url = None

\* The upload endpoint answered a request whose upload_to_mux raised.
C29_Witness ==
    /\ ppc = "done"
    /\ endpoint = "upload_video"
    /\ Failed("upload")
    /\ ~response.success
    /\ response.status = "failed"

\* The local asset_id holds an id.
IdAssigned == asset_id # None /\ asset_id # ""

\* C23: the asset id starts unassigned and is assigned exactly once: it is taken
\* from a get_direct_upload answer, and after that upload_to_mux never polls
\* the upload again and never replaces the id with another value or with null.
C23_AssetIdAssignedOnce ==
    [][/\ pc = "start" => ~IdAssigned
       /\ IdAssigned =>
             /\ asset_id' = asset_id
             /\ ncalls'.get_upload = ncalls.get_upload
       /\ asset_id' # asset_id =>
             /\ ncalls'.get_upload = ncalls.get_upload + 1
             /\ asset_id' = first_id']_vars

\* An id was taken from the upload and the asset has been polled with it.
C23_Witness ==
    /\ IdAssigned
    /\ ncalls.get_upload >= 2
    /\ ncalls.get_asset >= 2
    /\ polled_ids = {asset_id}


\* C22: download_file raises when the status is a 4xx or a 5xx and writes nothing
\* then; when the length of the content is not advertised, or advertised as
\* zero, it writes every chunk it receives to the destination, in order, reports
\* no progress, and returns the destination path; it never reports progress
\* when total_size is zero, whether it returns or not.
C22_DownloadContract ==
    /\ (status_code >= 400) => /\ dl_pc = "raised"
                               /\ dl_result.kind = "raised"
                               /\ received = <<>>
    /\ (dl_pc \in {"stream", "returned", "raised"} /\ status_code = 200
            /\ total_size = 0)
         => /\ dest = Flatten(received)
            /\ reports = <<>>
    /\ (dl_pc = "returned" /\ total_size = 0)
         => /\ dest = content
            /\ dl_result = [kind |-> "returned", path |-> DownloadPath]

C22_Witness ==
    /\ dl_pc = "returned"
    /\ total_size = 0
    /\ Len(received) = 2
    /\ prior # <<>>

\* C24: a call of download_file that returns leaves the destination holding
\* exactly the content served, whatever the destination held before; so a
\* second call with the same source and destination leaves the content the
\* first call left.
C24_DownloadIdempotent ==
    /\ dl_pc = "returned" => dest = content
    /\ (dl_pc = "returned" /\ dl_calls = 2) => dest = first_dest

C24_Witness ==
    /\ dl_pc = "returned"
    /\ dl_calls = 2
    /\ prior # <<>>
    /\ content # <<>>
    /\ Len(received) = 2


\* C25: a POST to "/generate-music" on the application main.app is answered with
\* status 200 and a JSON body that has the key "output".
C25_GenerateMusicAnswered ==
    (rt_pc = "answered" /\ rt_method = "POST" /\ rt_path = "/generate-music")
        => /\ rt_response.status_code = 200
           /\ "output" \in rt_response.keys


\* C26: the background-job handlers return the response that carries job_id
\* before the generation call of the job is started, and when they return it the
\* job document exists with status 'processing'; a request whose path is not "/"
\* or whose Replicate token is missing creates no job document and starts no
\* generation.
C26_ResponseBeforeGeneration ==
    [][/\ (gen_started' /\ ~gen_started)
            => /\ jpc = "returned"
               /\ "job_id" \in job_response.keys
       /\ (jpc' = "returned" /\ jpc # "returned" /\ "job_id" \in job_response'.keys)
            => /\ job_doc'.exists
               /\ job_doc'.status = "processing"
               /\ ~gen_started'
       /\ (job_path # "/" \/ ~job_token)
            => /\ ~job_doc'.exists
               /\ task_pc' = "none"
               /\ ~gen_started'
               /\ "job_id" \notin job_response'.keys]_vars

C26_Witness ==
    /\ gen_started
    /\ jpc = "returned"
    /\ job_response.status_code = 200
    /\ job_doc.exists

\* C27: the background task of a job ends with the job document in one terminal
\* status and without an unhandled exception: 'completed' only if the generation
\* call returned a result, 'failed' only if it failed, never 'processing'.
C27_JobReachesTerminal ==
    task_pc = "ended"
        => /\ ~task_unhandled
           /\ job_doc.status \in {"completed", "failed"}
           /\ job_doc.status = "completed" => gen_outcome = "returned"
           /\ job_doc.status = "failed" => gen_outcome = "raised"


\* C28: in the music-generation test function, when the generation call has not
\* returned at the expiry of the 25-second timer, the handler returns the
\* timeout response (error_type 'TimeoutError', status 408) and does not wait
\* for the generation call; it returns the success response only if the
\* generation call returned before the timer expired.
C28_TimeoutNotWaited ==
    /\ (tf_pc = "returned" /\ tf_late)
         => /\ tf_response.status_code = 408
            /\ tf_response.error_type = "TimeoutError"
    /\ (tf_pc = "returned" /\ "output" \in tf_response.keys) => ~tf_late


\* The number of chunks of a file of size bytes: ceil(size / chunk_size).
ChunkCount(size) == (size + chunk_size - 1) \div chunk_size

====
